---- MODULE Spec2Model ----
(***************************************************************************)
(* The relayer of relayer/src/index.ts: signed intents (join, set-name,    *)
(* move) and kick requests are validated, verified, de-duplicated per      *)
(* player (moves only) and sent to the arena contract through one promise  *)
(* chain, the FIFO queue `tail`.                                           *)
(*                                                                         *)
(* A request handler runs synchronously up to its first await, so the      *)
(* validation, the moveInFlight lookup, the enqueue and the moveInFlight   *)
(* insert of one request are one step.  The reactions of the promise chain *)
(* (a task starting, the tail settling, the handler resuming and           *)
(* answering) are steps of their own, and Node runs those that are due     *)
(* before it delivers the next request or the next result of an arena      *)
(* call.                                                                   *)
(*                                                                         *)
(* The module holds six machines over one set of variables, each leaving   *)
(* the variables of the others unchanged:                                  *)
(*   Spec, LiveSpec  the relayer's routes and its queue;                   *)
(*   ArenaSpec       the Arena contract: setNameFor, joinFor, moveFor and  *)
(*                   kickInactive as transactions that execute or revert;  *)
(*   RouteSpec       the Next.js API routes, which send to the arena       *)
(*                   directly;                                             *)
(*   RateSpec        the relayer's per-origin rate limiter in front of     *)
(*                   /health, and GateSpec the limiter in front of the     *)
(*                   relayer's routes;                                     *)
(*   NameSpec        the name of the game page: typed, encoded as bytes12  *)
(*                   by toBytes12FromName, and decoded by bytes12ToString  *)
(*                   when the NameSet event comes back.  Names and bytes   *)
(*                   are sequences of code units and of bytes;             *)
(*   MoverSpec       the send loop of the page's requestMove: one request  *)
(*                   in flight, the latest direction pending.              *)
(* A digest is keccak256 of the ordered list of typed fields that          *)
(* solidityPacked / abi.encodePacked is given, so the relayer's, the       *)
(* client's and the contract's digests agree only if they pack the same    *)
(* fields in the same order.                                               *)
(***************************************************************************)
EXTENDS Integers, Sequences, FiniteSets, TLC

\* Number of HTTP requests received in a run.
MaxReq == 3

------------------------------------------------------------------------------
\* Values

\* The burner keys that sign intents.
Actors == {"a", "b"}

\* The address ecrecover yields for a signature checked against a digest it
\* was not made for: no actor's address.
Stranger == "z"

\* An address string as received: the address it denotes and its spelling.
\*   lower     0x + 40 lower-case hex digits
\*   checksum  0x + 40 hex digits in EIP-55 mixed case
\*   noprefix  40 hex digits without the 0x prefix
\*   bad       anything else
AddrStr(a, form) == [addr |-> a, form |-> form]

\* String.prototype.toLowerCase on an address string.
toLowerCase(p) == [p EXCEPT !.form = IF @ = "checksum" THEN "lower" ELSE @]

\* A message text, as the fragments it is made of; s.includes(t) for a
\* fragment t.
includes(m, t) == \E i \in DOMAIN m : m[i] = t

\* Promise settlement values.
Undefined == [tag |-> "undefined", hash |-> 0, msg |-> <<>>]
TxResponse(h) == [tag |-> "tx", hash |-> h, msg |-> <<>>]
ErrorValue(m) == [tag |-> "error", hash |-> 0, msg |-> m]

Pending == [st |-> "pending", val |-> Undefined]
Fulfilled(v) == [st |-> "fulfilled", val |-> v]
Rejected(v) == [st |-> "rejected", val |-> v]

\* References to the promises of the chain: run k and tail k of the k-th
\* enqueue, and tail 0, the Promise.resolve() the queue starts with.
RunRef(k) == [t |-> "run", k |-> k]
TailRef(k) == [t |-> "tail", k |-> k]

------------------------------------------------------------------------------
\* Pure helpers of the relayer

\* The outcome of an expression that may throw.
Ok(v) == [ok |-> TRUE, v |-> v, err |-> <<>>]
Throw(m) == [ok |-> FALSE, v |-> 0, err |-> m]

\* The decimal strings of the model and their values.
Numeral == ("0" :> 0) @@ ("5" :> 5)

\* BigInt(s): the value of a numeral, a SyntaxError quoting s otherwise.
BigInt(s) ==
    IF s \in DOMAIN Numeral THEN Ok(Numeral[s])
    ELSE Throw(<<"Cannot convert ", s, " to a BigInt">>)

CHAIN_ID == 10143
ARENA_ADDRESS == AddrStr("arena", "checksum")

\* block.chainid and address(this) of the Arena contract: the relayer is
\* configured for the chain and the address the contract is deployed at.
chainid == CHAIN_ID
this == ARENA_ADDRESS.addr

SET_NAME == 0
JOIN == 1
MOVE == 2

\* solidityPacked / abi.encodePacked: the values in their order, each with
\* its Solidity type.  keccak256 is injective on the packed bytes for all
\* practical purposes: a hash is the bytes32 value that carries its preimage.
Packed(type, int, hex, pre) == [type |-> type, int |-> int, hex |-> hex, pre |-> pre]
Uint8(n) == Packed("uint8", n, "", <<>>)
Uint256(n) == Packed("uint256", n, "", <<>>)
Bytes12(h) == Packed("bytes12", 0, h, <<>>)
Address(a) == Packed("address", 0, a, <<>>)
keccak256(packed) == Packed("bytes32", 0, "", packed)

\* ethers.getAddress accepts 40 hex digits with or without 0x, in lower case
\* or with a correct EIP-55 checksum.
isAddr(x) == x.form # "bad"

commonDomain(chainId, arenaAddress) ==
    keccak256(<<Uint256(chainId), Address(arenaAddress.addr)>>)

digestJoin(params) ==
    keccak256(<<commonDomain(CHAIN_ID, ARENA_ADDRESS), Uint8(JOIN),
                Address(params.player.addr), Uint256(params.nonce),
                Uint256(params.deadline)>>)

digestMove(params) ==
    keccak256(<<commonDomain(CHAIN_ID, ARENA_ADDRESS), Uint8(MOVE),
                Address(params.player.addr), Uint8(params.dir), Uint256(params.nonce),
                Uint256(params.deadline)>>)

\* solidityPacked throws on a bytes12 value that is not 12 bytes of hex.
digestSetName(params) ==
    IF params.nameBytes12 \notin {"hex12", "zero12"}
    THEN Throw(<<"invalid BytesLike value">>)
    ELSE Ok(keccak256(<<commonDomain(CHAIN_ID, ARENA_ADDRESS), Uint8(SET_NAME),
                        Address(params.player.addr), Bytes12(params.nameBytes12),
                        Uint256(params.nonce), Uint256(params.deadline)>>))

\* lib/arena, used by the client and by the API routes of the Next.js app:
\* the digests with chain id and arena address as parameters.  solidityPacked
\* throws on a value that is no address or no bytes12.
LibActionType == [SET_NAME |-> 0, JOIN |-> 1, MOVE |-> 2]

libDigestJoin(params) ==
    IF ~isAddr(params.player) THEN Throw(<<"invalid address">>)
    ELSE Ok(keccak256(<<commonDomain(params.chainId, params.arenaAddress),
                        Uint8(LibActionType.JOIN), Address(params.player.addr),
                        Uint256(params.nonce), Uint256(params.deadline)>>))

libDigestMove(params) ==
    IF ~isAddr(params.player) THEN Throw(<<"invalid address">>)
    ELSE Ok(keccak256(<<commonDomain(params.chainId, params.arenaAddress),
                        Uint8(LibActionType.MOVE), Address(params.player.addr),
                        Uint8(params.dir), Uint256(params.nonce),
                        Uint256(params.deadline)>>))

libDigestSetName(params) ==
    IF ~isAddr(params.player) THEN Throw(<<"invalid address">>)
    ELSE IF params.nameBytes12 \notin {"hex12", "zero12"}
    THEN Throw(<<"invalid BytesLike value">>)
    ELSE Ok(keccak256(<<commonDomain(params.chainId, params.arenaAddress),
                        Uint8(LibActionType.SET_NAME), Address(params.player.addr),
                        Bytes12(params.nameBytes12), Uint256(params.nonce),
                        Uint256(params.deadline)>>))

\* A string is the sequence of its UTF-16 code units, a byte string the
\* sequence of its bytes, a hex string the sequence of its hex digits after
\* the 0x prefix.  The characters of the model: NUL, the blank, "e", "j",
\* "t", and "e" with an acute accent, which is one code unit and two bytes
\* in UTF-8.
Chars == {0, 32, 101, 106, 116, 233}
isWhiteSpace(c) == c = 32

\* String.prototype.trim
trim(name) ==
    LET keep == {i \in DOMAIN name : ~isWhiteSpace(name[i])}
        first == CHOOSE i \in keep : \A j \in keep : i <= j
        last0 == CHOOSE i \in keep : \A j \in keep : i >= j
    IN  IF keep = {} THEN <<>> ELSE SubSeq(name, first, last0)

\* s.slice(0, n) of a string or a byte string
slice(s, n) == SubSeq(s, 1, IF Len(s) > n THEN n ELSE Len(s))

\* ethers.toUtf8Bytes(s), for code units below 0x800
RECURSIVE toUtf8Bytes(_)
toUtf8Bytes(s) ==
    IF s = <<>> THEN <<>>
    ELSE (IF Head(s) < 128 THEN <<Head(s)>>
          ELSE <<192 + (Head(s) \div 64), 128 + (Head(s) % 64)>>)
         \o toUtf8Bytes(Tail(s))

\* ethers.toUtf8String(bytes): it throws on bytes that are not UTF-8.
RECURSIVE toUtf8String(_)
toUtf8String(bytes) ==
    IF bytes = <<>> THEN Ok(<<>>)
    ELSE IF bytes[1] < 128
    THEN LET rest == toUtf8String(Tail(bytes))
         IN  IF rest.ok THEN Ok(<<bytes[1]>> \o rest.v) ELSE rest
    ELSE IF bytes[1] \in 194..223 /\ Len(bytes) >= 2 /\ bytes[2] \in 128..191
    THEN LET rest == toUtf8String(SubSeq(bytes, 3, Len(bytes)))
         IN  IF rest.ok
             THEN Ok(<<(bytes[1] - 192) * 64 + (bytes[2] - 128)>> \o rest.v)
             ELSE rest
    ELSE Throw(<<"invalid codepoint">>)

\* ethers.zeroPadBytes(bytes, n): zero bytes appended up to length n
zeroPadBytes(bytes, n) == bytes \o [i \in 1..(n - Len(bytes)) |-> 0]

\* ethers.hexlify(bytes) and ethers.getBytes(hex)
RECURSIVE hexlify(_)
hexlify(bytes) ==
    IF bytes = <<>> THEN <<>>
    ELSE <<Head(bytes) \div 16, Head(bytes) % 16>> \o hexlify(Tail(bytes))
getBytes(hex) == [i \in 1..(Len(hex) \div 2) |-> hex[2 * i - 1] * 16 + hex[2 * i]]

\* toBytes12FromName that pads without cutting the bytes to 12.
toBytes12FromNameUncut(name) ==
    LET trimmed == slice(trim(name), 12)
        bytes == toUtf8Bytes(trimmed)
    IN  hexlify(IF Len(bytes) > 12 THEN bytes ELSE zeroPadBytes(bytes, 12))

\* toBytes12FromName(name)
toBytes12FromName(name) ==
    LET trimmed == slice(trim(name), 12)
        bytes == toUtf8Bytes(trimmed)
        sliced == IF Len(bytes) > 12 THEN slice(bytes, 12) ELSE bytes
        padded == zeroPadBytes(sliced, 12)
    IN  hexlify(padded)

\* bytes12ToString(b12)
bytes12ToString(b12) ==
    LET raw == getBytes(b12)
        nonzero == {i \in DOMAIN raw : raw[i] # 0}
        end == IF nonzero = {} THEN 0 ELSE CHOOSE i \in nonzero : \A j \in nonzero : i >= j
    IN  toUtf8String(SubSeq(raw, 1, end))

\* The 12-byte name as the digests of the model know it: the zero name, or
\* some other name.
nameToken(b12) == IF b12 = hexlify(zeroPadBytes(<<>>, 12)) THEN "zero12" ELSE "hex12"

\* A signature as received: its shape, and for a 65-byte signature the key
\* that made it and the digest it was made over.
\*   sig65   0x + 65 bytes
\*   badlen  0x + hex of another length
\*   no0x    not a string, or a string without the 0x prefix
Sign(a, dg) == [shape |-> "sig65", signer |-> a, digest |-> dg]
NoDigest == keccak256(<<>>)
RawSig(shape) == [shape |-> shape, signer |-> "", digest |-> NoDigest]

startsWith0x(sig) == sig.shape # "no0x"

\* ethers.verifyMessage(getBytes(digest), sig): the signer's checksummed
\* address; it throws on a value that is no signature.
verifyMessage(digest, sig) ==
    CASE sig.shape = "no0x" -> Throw(<<"invalid BytesLike value">>)
      [] sig.shape = "badlen" -> Throw(<<"invalid raw signature length">>)
      [] OTHER -> Ok(AddrStr(IF sig.digest = digest THEN sig.signer ELSE Stranger,
                             "checksum"))

\* A verifier that accepts whatever key the signature recovers to.
verifyBurnerSignatureAnyKey(opts) ==
    LET recovered == verifyMessage(opts.digest, opts.sig)
    IN  IF ~recovered.ok THEN recovered ELSE Ok(TRUE)

verifyBurnerSignature(opts) ==
    LET recovered == verifyMessage(opts.digest, opts.sig)
    IN  IF ~recovered.ok THEN recovered
        ELSE Ok(toLowerCase(recovered.v) = toLowerCase(opts.player))

\* normalizeErr(e).msg
normalizeErr(e) == e.msg

------------------------------------------------------------------------------
\* Responses and the synchronous part of the handlers

NoReply == [status |-> 0, ok |-> FALSE, error |-> <<>>, deduped |-> FALSE, hash |-> 0]
ReplyError(status, error) ==
    [status |-> status, ok |-> FALSE, error |-> error, deduped |-> FALSE, hash |-> 0]
ReplyHash(h) ==
    [status |-> 200, ok |-> TRUE, error |-> <<>>, deduped |-> FALSE, hash |-> h]
ReplyDeduped ==
    [status |-> 200, ok |-> TRUE, error |-> <<>>, deduped |-> TRUE, hash |-> 0]

\* The call a task makes on the arena contract (the closure handed to
\* enqueue); the gas limit is a fixed number.
Call(fn, player, dir, name, nonce, deadline, sig) ==
    [fn |-> fn, player |-> player, dir |-> dir, name |-> name,
     nonce |-> nonce, deadline |-> deadline, sig |-> sig]
NoCall == Call("", "", 0, "", 0, 0, RawSig("no0x"))

\* What the synchronous part of a handler decides: a response, or a call to
\* submit.
Answer(r) == [submit |-> FALSE, reply |-> r, call |-> NoCall]
Submit(c) == [submit |-> TRUE, reply |-> NoReply, call |-> c]

\* The catch blocks of /join, /set-name and /kick.
catch400(e) == ReplyError(400, normalizeErr(e))

\* The catch block of /move.
isOrderingConflict(m) ==
    \/ includes(m, "higher priority")
    \/ includes(m, "nonce too low")
    \/ includes(m, "replacement transaction underpriced")

\* A catch block that hides the conflicts of the RPC node from the client.
catchMoveQuiet(e) ==
    LET err == normalizeErr(e)
    IN  IF isOrderingConflict(err) THEN ReplyDeduped ELSE ReplyError(400, err)

catchMove(e) ==
    LET err == normalizeErr(e)
    IN  IF isOrderingConflict(err) THEN ReplyError(409, err) ELSE ReplyError(400, err)

\* POST /join up to the call of enqueue.
joinChecks(body) ==
    IF ~isAddr(body.player) THEN Answer(ReplyError(400, <<"Bad player address">>))
    ELSE IF ~startsWith0x(body.sig) THEN Answer(ReplyError(400, <<"Bad sig">>))
    ELSE
      LET n == BigInt(body.nonce)
          dl == BigInt(body.deadline)
      IN  IF ~n.ok THEN Answer(catch400(ErrorValue(n.err)))
          ELSE IF ~dl.ok THEN Answer(catch400(ErrorValue(dl.err)))
          ELSE
            LET dig == digestJoin([player |-> body.player, nonce |-> n.v, deadline |-> dl.v])
                v == verifyBurnerSignature([player |-> body.player, digest |-> dig, sig |-> body.sig])
            IN  IF ~v.ok THEN Answer(catch400(ErrorValue(v.err)))
                ELSE IF ~v.v THEN Answer(ReplyError(400, <<"Bad burner sig">>))
                ELSE Submit(Call("joinFor", body.player.addr, 0, "", n.v, dl.v, body.sig))

\* nameBytes12.startsWith("0x") && nameBytes12.length === 26
isHexLen26(name) == name \in {"hex12", "zero12", "nothex26"}

\* POST /set-name up to the call of enqueue.
setNameChecks(body) ==
    IF ~isAddr(body.player) THEN Answer(ReplyError(400, <<"Bad player address">>))
    ELSE IF ~isHexLen26(body.nameBytes12)
    THEN Answer(ReplyError(400, <<"Bad nameBytes12 (must be 12 bytes hex)">>))
    ELSE
      LET n == BigInt(body.nonce)
          dl == BigInt(body.deadline)
      IN  IF ~n.ok THEN Answer(catch400(ErrorValue(n.err)))
          ELSE IF ~dl.ok THEN Answer(catch400(ErrorValue(dl.err)))
          ELSE
            LET dig == digestSetName([player |-> body.player, nameBytes12 |-> body.nameBytes12,
                                      nonce |-> n.v, deadline |-> dl.v])
                v == IF dig.ok
                     THEN verifyBurnerSignature([player |-> body.player, digest |-> dig.v,
                                                 sig |-> body.sig])
                     ELSE dig
            IN  IF ~v.ok THEN Answer(catch400(ErrorValue(v.err)))
                ELSE IF ~v.v THEN Answer(ReplyError(400, <<"Bad burner sig">>))
                ELSE Submit(Call("setNameFor", body.player.addr, 0, body.nameBytes12, n.v, dl.v,
                                 body.sig))

\* POST /move up to the call of enqueueMoveOnce.
moveChecks(body) ==
    IF ~isAddr(body.player) THEN Answer(ReplyError(400, <<"Bad player address">>))
    ELSE IF body.dir \notin {0, 1, 2, 3} THEN Answer(ReplyError(400, <<"Bad dir">>))
    ELSE
      LET n == BigInt(body.nonce)
          dl == BigInt(body.deadline)
      IN  IF ~n.ok THEN Answer(catchMove(ErrorValue(n.err)))
          ELSE IF ~dl.ok THEN Answer(catchMove(ErrorValue(dl.err)))
          ELSE
            LET dig == digestMove([player |-> body.player, dir |-> body.dir,
                                   nonce |-> n.v, deadline |-> dl.v])
                v == verifyBurnerSignature([player |-> body.player, digest |-> dig, sig |-> body.sig])
            IN  IF ~v.ok THEN Answer(catchMove(ErrorValue(v.err)))
                ELSE IF ~v.v THEN Answer(ReplyError(400, <<"Bad burner sig">>))
                ELSE Submit(Call("moveFor", body.player.addr, body.dir, "", n.v, dl.v, body.sig))

\* POST /kick up to the call of enqueue.
kickChecks(body) ==
    IF ~isAddr(body.player) THEN Answer(ReplyError(400, <<"Bad player address">>))
    ELSE Submit(Call("kickInactive", body.player.addr, 0, "", 0, 0, RawSig("no0x")))

------------------------------------------------------------------------------
\* State

VARIABLES
    tail,          \* the promise the queue's `tail` variable refers to
    tasks,         \* the closures handed to enqueue, in the order of the calls
    fnP,           \* fnP[k]: the promise of the arena call of task k
    runP,          \* runP[k]: the promise `run` of the k-th enqueue
    tailP,         \* tailP[k]: the promise stored in `tail` by the k-th enqueue
    moveInFlight,  \* the Map: lower-cased player -> promise of its move
    started,       \* the arena calls made, in the order the signer saw them
    awaiting,      \* awaiting[k]: the promise the handler of task k awaits
    replies,       \* replies[k]: the response sent by the handler of task k
    nreq,          \* requests received so far
    last,          \* the request handled in this turn and what its handler did
    window         \* window[a]: the verified moves of a received since its
                   \* outstanding move submission was created, oldest first

relayerVars == <<tail, tasks, fnP, runP, tailP, moveInFlight, started, awaiting,
                 replies, nreq, last, window>>

\* The storage of the Arena contract and the chain it runs on.
VARIABLES
    nonces,        \* mapping(address => uint256) nonces
    players,       \* mapping(address => Player) players
    nameOf,        \* mapping(address => bytes12) nameOf
    tileOccupant,  \* mapping(uint16 => address) tileOccupant, the non-zero entries
    lastActiveAt,  \* mapping(address => uint256) lastActiveAt
    timestamp,     \* block.timestamp of the block being executed
    accepted       \* accepted[<<p, n>>]: the intents of p with sequence n that
                   \* were executed without reverting

arenaVars == <<nonces, players, nameOf, tileOccupant, lastActiveAt, timestamp,
               accepted>>

\* The API routes of the Next.js app, which send to the arena themselves.
VARIABLES
    direct         \* direct[i]: the handler of the i-th request of these routes

routeVars == <<direct>>

\* The rate limiter of the relayer.
VARIABLES
    ipHits,        \* the Map: ip -> { count, resetAt }
    now,           \* Date.now()
    hist           \* hist[ip]: the status the limiter gave each request of ip
                   \* since the request that opened ip's window, oldest first

rateVars == <<ipHits, now, hist>>

\* The game page of the Next.js app, as far as names go.
VARIABLE
    nameForm       \* the name typed, the bytes12 sent for it and the name shown
                   \* when the NameSet event comes back

VARIABLE
    mover          \* the send loop of requestMove: moveInFlightRef, pendingDirRef,
                   \* chainIdRef, the calls of requestMove that entered the loop,
                   \* and the directions pressed and sent so far

clientVars == <<nameForm, mover>>

vars == <<relayerVars, arenaVars, routeVars, rateVars, clientVars>>

\* What the steps of one component leave alone.
notRelayer == <<arenaVars, routeVars, rateVars, clientVars>>
notArena == <<relayerVars, routeVars, rateVars, clientVars>>
notRoutes == <<relayerVars, arenaVars, rateVars, clientVars>>
notName == <<relayerVars, arenaVars, routeVars, rateVars, mover>>
notMover == <<relayerVars, arenaVars, routeVars, rateVars, nameForm>>

\* The state of a promise of the chain.
PState(ref) ==
    IF ref.t = "run" THEN runP[ref.k]
    ELSE IF ref.k = 0 THEN Fulfilled(Undefined)
    ELSE tailP[ref.k]

Settled(ref) == PState(ref).st # "pending"

\* Task k waits in the chain or runs.
Unsettled(k) == tasks[k].phase \in {"queued", "running"}

------------------------------------------------------------------------------
\* The queue and the dedupe table

\* enqueue that never replaces `tail`: every task is chained on the promise
\* the queue started with.
enqueueUnadvanced(tl, k) ==
    [src |-> tl, onFulfilled |-> "fn", onRejected |-> "fn",
     tail |-> tl, swallow |-> TRUE,
     ret |-> RunRef(k)]

\* enqueue as the plain chain run = tail.then(fn); tail = run.
enqueueNaive(tl, k) ==
    [src |-> tl, onFulfilled |-> "fn", onRejected |-> "none",
     tail |-> RunRef(k), swallow |-> FALSE,
     ret |-> RunRef(k)]

\* enqueue that returns the new tail instead of run.
enqueueReturnsTail(tl, k) ==
    [src |-> tl, onFulfilled |-> "fn", onRejected |-> "fn",
     tail |-> TailRef(k), swallow |-> TRUE,
     ret |-> TailRef(k)]

\* enqueue(fn), the k-th call, with `tail` referring to tl:
\*   run = tail.then(fn, fn)          the task reacts to tl, fn on either outcome
\*   tail = run.then(() => undefined, () => undefined)
\*   return run
enqueue(tl, k) ==
    [src |-> tl, onFulfilled |-> "fn", onRejected |-> "fn",
     tail |-> TailRef(k), swallow |-> TRUE,
     ret |-> RunRef(k)]

\* The key taken as the player string was sent.
moveKeyAsSent(player) == player

\* const key = player.toLowerCase()
moveKey(player) == toLowerCase(player)

\* A lookup that never finds the entry.
hasInFlightNever(map, key) == FALSE

\* moveInFlight.get(key) is truthy
hasInFlight(map, key) == key \in DOMAIN map

\* moveInFlight.set(key, p)
mapSet(map, key, p) == [x \in DOMAIN map \cup {key} |-> IF x = key THEN p ELSE map[x]]

\* moveInFlight.delete(key)
mapDelete(map, key) == [x \in DOMAIN map \ {key} |-> map[x]]

\* The entry deleted in a then-callback, that is on success only.
moveFinallyOnSuccess(map, key, st) ==
    IF st = "fulfilled" THEN [x \in DOMAIN map \ {key} |-> map[x]] ELSE map

\* try { return await fn() } finally { moveInFlight.delete(key) }: the table
\* after the arena call of a move task settled with outcome st.
moveFinally(map, key, st) == mapDelete(map, key)

\* The task appended by the k-th enqueue.
Task(call, rid, ch, once, key) ==
    [call |-> call, rid |-> rid, src |-> ch.src,
     onFulfilled |-> ch.onFulfilled, onRejected |-> ch.onRejected,
     swallow |-> ch.swallow, once |-> once, key |-> key, phase |-> "queued"]

NoKey == AddrStr("", "bad")

\* The record of the request handled in the current turn of the event loop:
\* its number, route, the actor of a verified request, what is wrong with it,
\* the response of its synchronous part, the task it enqueued and the promise
\* it got from enqueueMoveOnce.
Last(rid, kind, actor, defect, reply, task, handle) ==
    [rid |-> rid, kind |-> kind, actor |-> actor, defect |-> defect,
     reply |-> reply, task |-> task, handle |-> handle]

------------------------------------------------------------------------------
\* The requests clients send

Forms == {"lower", "checksum"}
Dirs == {0, 3}
OtherActor(a) == CHOOSE b \in Actors : b # a

\* What can be wrong with a request.
SignedDefects ==
    {"none", "badAddr", "noprefix", "badNonce", "badNonceText", "badDeadline",
     "sigStranger", "sigOtherDigest", "sigBadLen", "sigNo0x"}

DefectsOf(kind) ==
    CASE kind = "join" -> SignedDefects
      [] kind = "set-name" -> SignedDefects \cup {"badName", "badNameHex"}
      [] kind = "move" -> SignedDefects \cup {"badDir"}
      [] OTHER -> {"none", "badAddr"}

\* The digest the client of actor a signs for an intent with sequence n and
\* no expiry: chainId is the network's, arenaAddress the configured one.
SignedDigest(kind, a, dir, n) ==
    LET params == [chainId |-> chainid, arenaAddress |-> ARENA_ADDRESS,
                   player |-> AddrStr(a, "checksum"), dir |-> dir,
                   nameBytes12 |-> "hex12", nonce |-> n, deadline |-> 0]
    IN  CASE kind = "join" -> libDigestJoin(params).v
          [] kind = "set-name" -> libDigestSetName(params).v
          [] OTHER -> libDigestMove(params).v

\* The body of a request of actor a with the given defect.
MkBody(kind, a, form, dir, defect) ==
    [player |-> AddrStr(a, CASE defect = "badAddr" -> "bad"
                             [] defect = "noprefix" -> "noprefix"
                             [] OTHER -> form),
     dir |-> IF defect = "badDir" THEN 4 ELSE dir,
     nameBytes12 |-> CASE defect = "badName" -> "short"
                       [] defect = "badNameHex" -> "nothex26"
                       [] OTHER -> "hex12",
     nonce |-> CASE defect = "badNonce" -> "abc"
                 [] defect = "badNonceText" -> "nonce too low"
                 [] OTHER -> "5",
     deadline |-> IF defect = "badDeadline" THEN "abc" ELSE "0",
     sig |-> CASE defect = "sigStranger" -> Sign(OtherActor(a), SignedDigest(kind, a, dir, 5))
               [] defect = "sigOtherDigest" -> Sign(a, SignedDigest(kind, a, dir, 6))
               [] defect = "sigBadLen" -> RawSig("badlen")
               [] defect = "sigNo0x" -> RawSig("no0x")
               [] OTHER -> Sign(a, SignedDigest(kind, a, dir, 5))]

\* The failures of the arena call that the signer or the RPC node reports.
ExtErrors == {<<"nonce too low">>, <<"insufficient funds">>}

\* Actor a has a move task waiting or running.
Outstanding(a) ==
    \E k \in DOMAIN tasks :
        tasks[k].call.fn = "moveFor" /\ tasks[k].call.player = a /\ Unsettled(k)

\* No request was handled in the current turn of the event loop.
NoRequest == Last(0, "", "", "none", NoReply, 0, TailRef(0))

\* The reactions that are due: a task whose predecessor settled, a tail
\* whose run settled, a handler whose awaited promise settled.
RunTaskDue(k) == tasks[k].phase = "queued" /\ Settled(tasks[k].src)
\* A tail that gives up on its run: it settles whether or not run has.
SettleTailDueOrTimedOut(k) == tailP[k].st = "pending"
SettleTailDue(k) == tailP[k].st = "pending" /\ runP[k].st # "pending"
RespondDue(k) == replies[k] = NoReply /\ Settled(awaiting[k])

\* A server that takes no request while an arena call is outstanding.
MicrotasksDrainedAndIdle ==
    /\ \A k \in DOMAIN tasks : ~RunTaskDue(k) /\ ~SettleTailDue(k) /\ ~RespondDue(k)
    /\ \A k \in DOMAIN tasks : tasks[k].phase # "running"

\* Node runs the promise reactions that are due (the microtask queue) before
\* it delivers the next request or the next network completion.
MicrotasksDrained ==
    \A k \in DOMAIN tasks : ~RunTaskDue(k) /\ ~SettleTailDue(k) /\ ~RespondDue(k)

------------------------------------------------------------------------------
\* The Arena contract: values and internal functions

\* Highest sequence number an intent is sent with.
MaxNonce == 2

\* Latest block timestamp of a run.
MaxTime == 17

MAP_SIZE == 64
INACTIVITY_TIMEOUT == 15

\* address(0) and bytes12(0)
address0 == "0"
bytes12zero == "zero12"

\* struct Player; a mapping yields the zero struct until it is written.
Player(x, y, score, joined) == [x |-> x, y |-> y, score |-> score, joined |-> joined]

\* The tiles the hash of _spawn is taken to fall on.
SpawnTiles == {<<0, 0>>, <<1, 0>>}

\* revert E()
Revert(e) == Throw(<<e>>)

\* _tileId(x, y)
_tileId(x, y) == x + y * MAP_SIZE

\* tileOccupant[t]
occupant(occ, t) == IF t \in DOMAIN occ THEN occ[t] ELSE address0

\* tileOccupant[t] = who
setOccupant(occ, t, who) ==
    IF who = address0 THEN mapDelete(occ, t) ELSE mapSet(occ, t, who)

\* _applyDir without the edge checks: the unchecked uint8 arithmetic wraps.
_applyDirWrapping(x, y, dir) ==
    CASE dir = 0 -> <<x, (y + 255) % 256>>
      [] dir = 1 -> <<x, (y + 1) % 256>>
      [] dir = 2 -> <<(x + 255) % 256, y>>
      [] OTHER -> <<(x + 1) % 256, y>>

\* _applyDir(x, y, dir)
_applyDir(x, y, dir) ==
    CASE dir = 0 -> IF y = 0 THEN <<x, y>> ELSE <<x, y - 1>>
      [] dir = 1 -> IF y = MAP_SIZE - 1 THEN <<x, y>> ELSE <<x, y + 1>>
      [] dir = 2 -> IF x = 0 THEN <<x, y>> ELSE <<x - 1, y>>
      [] OTHER -> IF x = MAP_SIZE - 1 THEN <<x, y>> ELSE <<x + 1, y>>

\* _spawn(player, salt): the tiles it can return with the probes falling on
\* cands, the first empty one probed.
_spawn(occ, cands) == {t \in cands : occupant(occ, _tileId(t[1], t[2])) = address0}

\* enum ActionType { SET_NAME, JOIN, MOVE }, packed as uint8
ActionType == [SET_NAME |-> 0, JOIN |-> 1, MOVE |-> 2]

\* _commonDomain()
_commonDomain == keccak256(<<Uint256(chainid), Address(this)>>)

\* _digestSetName(player, newName, nonce, deadline)
_digestSetName(player, newName, nonce, deadline) ==
    keccak256(<<_commonDomain, Uint8(ActionType.SET_NAME), Address(player),
                Bytes12(newName), Uint256(nonce), Uint256(deadline)>>)

\* _digestJoin(player, nonce, deadline)
_digestJoin(player, nonce, deadline) ==
    keccak256(<<_commonDomain, Uint8(ActionType.JOIN), Address(player),
                Uint256(nonce), Uint256(deadline)>>)

\* _digestMove with dir packed after the sequence number.
_digestMoveDirLate(player, dir, nonce, deadline) ==
    keccak256(<<_commonDomain, Uint8(ActionType.MOVE), Address(player),
                Uint256(nonce), Uint8(dir), Uint256(deadline)>>)

\* _digestMove(player, dir, nonce, deadline)
_digestMove(player, dir, nonce, deadline) ==
    keccak256(<<_commonDomain, Uint8(ActionType.MOVE), Address(player),
                Uint8(dir), Uint256(nonce), Uint256(deadline)>>)

\* _verify(signer, digest, sig): ECDSA.recover reverts on a signature that is
\* not 65 bytes, and yields the key that signed the digest otherwise.
_verify(signer, digest, sig) ==
    IF sig.shape # "sig65" THEN Revert("ECDSAInvalidSignatureLength")
    ELSE LET recovered == IF sig.digest = digest THEN sig.signer ELSE Stranger
         IN  IF recovered # signer THEN Revert("BadSig") ELSE Ok(TRUE)

\* _checkDeadline taking 0 for a time like any other.
_checkDeadlineNoSentinel(t, deadline) ==
    IF t > deadline THEN Revert("Expired") ELSE Ok(TRUE)

\* _checkDeadline(deadline) at block time t
_checkDeadline(t, deadline) ==
    IF deadline # 0 /\ t > deadline THEN Revert("Expired") ELSE Ok(TRUE)

\* _useNonce without the comparison: any sequence number is taken.
_useNonceUnchecked(ns, player, nonce) == Ok([ns EXCEPT ![player] = nonce + 1])

\* _useNonce without the increment.
_useNonceKept(ns, player, nonce) ==
    IF ns[player] # nonce THEN Revert("BadNonce") ELSE Ok(ns)

\* _useNonce(player, nonce): the mapping nonces after it, or the revert.
_useNonce(ns, player, nonce) ==
    IF ns[player] # nonce THEN Revert("BadNonce")
    ELSE Ok([ns EXCEPT ![player] = nonce + 1])

\* Most requests of one origin within one window.
MaxHits == 27

\* Latest time of a run, in ms.
MaxNow == 4001

windowMs == 2000
max == 25

\* A request as the limiter sees it: the entries of its x-forwarded-for
\* header, split at the commas and trimmed (none if there is no header), and
\* the address of the socket.
Request(xff, remote) == [xff |-> xff, remote |-> remote]

\* One client connecting directly, and one behind a proxy with that address.
Requests ==
    {Request(<<>>, "10.0.0.1"), Request(<<"10.0.0.2", "10.0.0.1">>, "10.0.0.1")}

\* x-forwarded-for's first entry || req.socket.remoteAddress || "unknown"
clientIp(req) ==
    IF req.xff # <<>> /\ req.xff[1] # "" THEN req.xff[1]
    ELSE IF req.remote # "" THEN req.remote
    ELSE "unknown"

\* rateLimit that rejects from the max-th request of a window on.
rateLimitAtMax(hits, ip, t) ==
    IF ip \notin DOMAIN hits \/ t > hits[ip].resetAt
    THEN [ipHits |-> mapSet(hits, ip, [count |-> 1, resetAt |-> t + windowMs]),
          reply |-> NoReply]
    ELSE [ipHits |-> [hits EXCEPT ![ip].count = @ + 1],
          reply |-> IF hits[ip].count + 1 >= max
                    THEN ReplyError(429, <<"Rate limited">>) ELSE NoReply]

\* rateLimit whose window slides: every request moves resetAt.
rateLimitSliding(hits, ip, t) ==
    IF ip \notin DOMAIN hits \/ t > hits[ip].resetAt
    THEN [ipHits |-> mapSet(hits, ip, [count |-> 1, resetAt |-> t + windowMs]),
          reply |-> NoReply]
    ELSE [ipHits |-> [hits EXCEPT ![ip] = [count |-> @.count + 1, resetAt |-> t + windowMs]],
          reply |-> IF hits[ip].count + 1 > max
                    THEN ReplyError(429, <<"Rate limited">>) ELSE NoReply]

\* rateLimit(req, res, next) for a request of ip at time t: the Map after
\* it, and the response it sends (NoReply when it calls next()).
rateLimit(hits, ip, t) ==
    IF ip \notin DOMAIN hits \/ t > hits[ip].resetAt
    THEN [ipHits |-> mapSet(hits, ip, [count |-> 1, resetAt |-> t + windowMs]),
          reply |-> NoReply]
    ELSE [ipHits |-> [hits EXCEPT ![ip].count = @ + 1],
          reply |-> IF hits[ip].count + 1 > max
                    THEN ReplyError(429, <<"Rate limited">>) ELSE NoReply]

\* The record of an origin's requests: when its window was opened, whether
\* each request of the window was passed on, and whether the last request of
\* the window before was.
Window(start, passed, before) == [start |-> start, passed |-> passed, before |-> before]

\* The record after a request of ip at time t that was passed on or not: a
\* window lasts windowMs from the request that opened it.
Recorded(h, ip, t, pass) ==
    IF ip \notin DOMAIN h THEN mapSet(h, ip, Window(t, <<pass>>, TRUE))
    ELSE IF t > h[ip].start + windowMs
    THEN mapSet(h, ip, Window(t, <<pass>>, h[ip].passed[Len(h[ip].passed)]))
    ELSE [h EXCEPT ![ip].passed = Append(@, pass)]

\* The limiter after max - 1 requests of the directly connected client in
\* the window it opened at time 0.
RateBusy ==
    LET ip == clientIp(Request(<<>>, "10.0.0.1"))
    IN  /\ ipHits = mapSet(<<>>, ip, [count |-> max - 1, resetAt |-> windowMs])
        /\ now = 0
        /\ hist = mapSet(<<>>, ip, Window(0, [i \in 1..(max - 1) |-> TRUE], TRUE))

\* The limiter of a relayer that has not seen a request.
RateInit ==
    /\ ipHits = <<>>
    /\ now = 0
    /\ hist = <<>>

\* The contract as deployed, in a block after genesis.
ArenaInit ==
    /\ nonces = [p \in Actors |-> 0]
    /\ players = [p \in Actors |-> Player(0, 0, 0, FALSE)]
    /\ nameOf = [p \in Actors |-> bytes12zero]
    /\ tileOccupant = <<>>
    /\ lastActiveAt = [p \in Actors |-> 0]
    /\ timestamp = 1
    /\ accepted = [i \in Actors \X (0..MaxNonce) |-> 0]

------------------------------------------------------------------------------
\* Actions

\* The relayer as started: an empty queue and an empty dedupe table.
QueueInit ==
    /\ tail = TailRef(0)
    /\ tasks = <<>>
    /\ fnP = <<>>
    /\ runP = <<>>
    /\ tailP = <<>>
    /\ moveInFlight = <<>>
    /\ started = <<>>
    /\ awaiting = <<>>
    /\ replies = <<>>
    /\ nreq = 0
    /\ last = NoRequest
    /\ window = [a \in Actors |-> <<>>]

\* null in pendingDirRef and in chainIdRef.
NoDir == -1
NoChain == 0

\* The page before a key is pressed: no move is being sent, no direction is
\* pending, the network is not known yet.
Mover(chainId, inFlight, pending, loops, pressed, sent) ==
    [chainId |-> chainId, moveInFlightRef |-> inFlight, pendingDirRef |-> pending,
     loops |-> loops, pressed |-> pressed, sent |-> sent]
NoMoves == Mover(NoChain, FALSE, NoDir, <<>>, <<>>, <<>>)

\* The page before a name is typed.
NameForm(name, nameBytes12, shown, phase) ==
    [name |-> name, nameBytes12 |-> nameBytes12, shown |-> shown, phase |-> phase]
NoName == NameForm(<<>>, <<>>, Ok(<<>>), "idle")

Init ==
    /\ QueueInit
    /\ ArenaInit
    /\ direct = <<>>
    /\ RateInit
    /\ nameForm = NoName
    /\ mover = NoMoves

\* The handler answers without submitting anything.
AnswerNow(kind, defect, reply) ==
    /\ nreq' = nreq + 1
    /\ last' = Last(nreq + 1, kind, "", defect, reply, 0, TailRef(0))
    /\ UNCHANGED <<tail, tasks, fnP, runP, tailP, moveInFlight, started, awaiting, replies>>

\* The handler calls enqueue and awaits the promise it returns.
EnqueueCall(call, once, key) ==
    LET k == Len(tasks) + 1
        ch == enqueue(tail, k)
    IN  /\ tasks' = Append(tasks, Task(call, nreq + 1, ch, once, key))
        /\ tail' = ch.tail
        /\ fnP' = Append(fnP, Pending)
        /\ runP' = Append(runP, Pending)
        /\ tailP' = Append(tailP, Pending)
        /\ awaiting' = Append(awaiting, ch.ret)
        /\ replies' = Append(replies, NoReply)
        /\ moveInFlight' = IF once THEN mapSet(moveInFlight, key, ch.ret) ELSE moveInFlight
        /\ nreq' = nreq + 1
        /\ UNCHANGED started

\* A join, set-name or kick handler that goes through the dedupe table as a
\* move does: an intent of an actor with an entry is answered deduped, and
\* the task of another is entered.
PlainOnce(kind, a, defect, decision) ==
    /\ IF decision.submit
       THEN LET key == moveKey(AddrStr(a, "lower"))
            IN  IF hasInFlight(moveInFlight, key)
                THEN AnswerNow(kind, defect, ReplyDeduped)
                ELSE /\ EnqueueCall(decision.call, TRUE, key)
                     /\ last' = Last(nreq + 1, kind, a, defect, NoReply, Len(tasks) + 1,
                                      TailRef(0))
       ELSE AnswerNow(kind, defect, decision.reply)
    /\ UNCHANGED window

\* POST /join, /set-name, /kick: the checks, then enqueue.
Plain(kind, a, defect, decision) ==
    /\ IF decision.submit
       THEN /\ EnqueueCall(decision.call, FALSE, NoKey)
            /\ last' = Last(nreq + 1, kind, a, defect, NoReply, Len(tasks) + 1, TailRef(0))
       ELSE AnswerNow(kind, defect, decision.reply)
    /\ UNCHANGED window

JoinRequest ==
    /\ MicrotasksDrained
    /\ nreq < MaxReq
    /\ \E a \in Actors, form \in Forms, defect \in DefectsOf("join") :
         Plain("join", a, defect, joinChecks(MkBody("join", a, form, 0, defect)))

SetNameRequest ==
    /\ MicrotasksDrained
    /\ nreq < MaxReq
    /\ \E a \in Actors, form \in Forms, defect \in DefectsOf("set-name") :
         Plain("set-name", a, defect, setNameChecks(MkBody("set-name", a, form, 0, defect)))

KickRequest ==
    /\ MicrotasksDrained
    /\ nreq < MaxReq
    /\ \E a \in Actors, form \in Forms \cup {"noprefix"}, defect \in DefectsOf("kick") :
         Plain("kick", a, defect, kickChecks(MkBody("kick", a, form, 0, defect)))

\* A handler that awaits the existing promise of a deduped move before it
\* answers: the request has no response when its turn ends.
MoveOnceAwaitsExisting(a, defect, player, call) ==
    LET key == moveKey(player)
    IN  IF hasInFlight(moveInFlight, key)
        THEN /\ nreq' = nreq + 1
             /\ last' = Last(nreq + 1, "move", a, defect, NoReply, 0, moveInFlight[key])
             /\ UNCHANGED <<tail, tasks, fnP, runP, tailP, moveInFlight, started,
                            awaiting, replies>>
        ELSE /\ EnqueueCall(call, TRUE, key)
             /\ last' = Last(nreq + 1, "move", a, defect, NoReply, Len(tasks) + 1,
                              moveInFlight'[key])

\* enqueueMoveOnce(player, fn) and the response to a deduped move.
MoveOnce(a, defect, player, call) ==
    LET key == moveKey(player)
    IN  IF hasInFlight(moveInFlight, key)
        THEN /\ nreq' = nreq + 1
             /\ last' = Last(nreq + 1, "move", a, defect, ReplyDeduped, 0, moveInFlight[key])
             /\ UNCHANGED <<tail, tasks, fnP, runP, tailP, moveInFlight, started,
                            awaiting, replies>>
        ELSE /\ EnqueueCall(call, TRUE, key)
             /\ last' = Last(nreq + 1, "move", a, defect, NoReply, Len(tasks) + 1,
                              moveInFlight'[key])

\* POST /move.
MoveRequest ==
    /\ MicrotasksDrained
    /\ nreq < MaxReq
    /\ \E a \in Actors, form \in Forms, dir \in Dirs, defect \in DefectsOf("move") :
         LET body == MkBody("move", a, form, dir, defect)
             decision == moveChecks(body)
         IN  /\ IF decision.submit
                THEN MoveOnce(a, defect, body.player, decision.call)
                ELSE AnswerNow("move", defect, decision.reply)
             /\ window' = IF defect # "none" THEN window
                          ELSE [window EXCEPT ![a] =
                                  IF Outstanding(a) THEN Append(@, nreq + 1)
                                  ELSE <<nreq + 1>>]

\* The reaction of run = tail.then(fn, fn): the promise the task was chained
\* on has settled, and the handler for its outcome is called.
RunTask(k) ==
    /\ RunTaskDue(k)
    /\ LET s == PState(tasks[k].src)
           handler == IF s.st = "fulfilled" THEN tasks[k].onFulfilled
                      ELSE tasks[k].onRejected
       IN  IF handler = "fn"
           THEN /\ tasks' = [tasks EXCEPT ![k].phase = "running"]
                /\ started' = Append(started, k)
                /\ UNCHANGED runP
           ELSE /\ tasks' = [tasks EXCEPT ![k].phase = "skipped"]
                /\ runP' = [runP EXCEPT ![k] = s]
                /\ UNCHANGED started
    /\ UNCHANGED <<tail, fnP, tailP, moveInFlight, awaiting, replies, nreq, last, window>>

\* The arena call of task k settles: the signer returns the transaction
\* response or fails.  A move task runs its finally block, and run settles
\* like the call.
SettleTask(k, outcome) ==
    /\ MicrotasksDrained
    /\ tasks[k].phase = "running"
    /\ LET p == IF outcome = <<"ok">> THEN Fulfilled(TxResponse(k))
                ELSE Rejected(ErrorValue(outcome))
       IN  /\ fnP' = [fnP EXCEPT ![k] = p]
           /\ runP' = [runP EXCEPT ![k] = p]
           /\ moveInFlight' = IF tasks[k].once
                              THEN moveFinally(moveInFlight, tasks[k].key, p.st)
                              ELSE moveInFlight
    /\ tasks' = [tasks EXCEPT ![k].phase = "settled"]
    /\ window' = IF tasks[k].call.fn = "moveFor"
                 THEN [window EXCEPT ![tasks[k].call.player] = <<>>]
                 ELSE window
    /\ last' = NoRequest
    /\ UNCHANGED <<tail, tailP, started, awaiting, replies, nreq>>

\* The reaction of tail = run.then(() => undefined, () => undefined).
SettleTail(k) ==
    /\ SettleTailDue(k)
    /\ tailP' = [tailP EXCEPT ![k] =
                   IF runP[k].st = "fulfilled" \/ tasks[k].swallow
                   THEN Fulfilled(Undefined)
                   ELSE runP[k]]
    /\ UNCHANGED <<tail, tasks, fnP, runP, moveInFlight, started, awaiting, replies,
                   nreq, last, window>>

\* The handler of task k resumes after its await and answers: tx.hash of the
\* value, or the catch block.  Nothing refers to the closure any longer: its
\* arguments are released.
Respond(k) ==
    /\ RespondDue(k)
    /\ LET s == PState(awaiting[k])
           e == IF s.st = "rejected" THEN s.val
                ELSE ErrorValue(<<"Cannot read properties of undefined (reading 'hash')">>)
       IN  replies' = [replies EXCEPT ![k] =
                         IF s.st = "fulfilled" /\ s.val.tag = "tx" THEN ReplyHash(s.val.hash)
                         ELSE IF tasks[k].call.fn = "moveFor" THEN catchMove(e)
                         ELSE catch400(e)]
    /\ tasks' = [tasks EXCEPT ![k].call = NoCall, ![k].rid = 0]
    /\ UNCHANGED <<tail, fnP, runP, tailP, moveInFlight, started, awaiting,
                   nreq, last, window>>

RunTasks == \E k \in DOMAIN tasks : RunTask(k)
SettleTasks ==
    \E k \in DOMAIN tasks, outcome \in {<<"ok">>} \cup ExtErrors : SettleTask(k, outcome)
SettleTails == \E k \in DOMAIN tasks : SettleTail(k)
Responds == \E k \in DOMAIN tasks : Respond(k)

\* The relayer's steps leave the contract alone: the transaction a task sends
\* is executed by the chain, not by the relayer.
Next ==
    \/ JoinRequest /\ UNCHANGED notRelayer
    \/ SetNameRequest /\ UNCHANGED notRelayer
    \/ MoveRequest /\ UNCHANGED notRelayer
    \/ KickRequest /\ UNCHANGED notRelayer
    \/ RunTasks /\ UNCHANGED notRelayer
    \/ SettleTasks /\ UNCHANGED notRelayer
    \/ SettleTails /\ UNCHANGED notRelayer
    \/ Responds /\ UNCHANGED notRelayer

Spec == Init /\ [][Next]_vars

\* Node runs every promise reaction that is due, and every arena call comes
\* back, with the transaction response or with an error.
LiveSpec ==
    /\ Spec
    /\ WF_vars(RunTasks /\ UNCHANGED notRelayer)
    /\ WF_vars(SettleTails /\ UNCHANGED notRelayer)
    /\ WF_vars(Responds /\ UNCHANGED notRelayer)
    /\ WF_vars(SettleTasks /\ UNCHANGED notRelayer)

------------------------------------------------------------------------------
\* The Arena contract: transactions

\* The signatures a transaction of player is sent with: the player's over
\* the digest dg of its arguments, the other key's over dg, the player's over
\* the digest of the next sequence number, and a value that is not 65 bytes
\* long.
SigsFor(player, dg, dgNext) ==
    {Sign(player, dg), Sign(OtherActor(player), dg), Sign(player, dgNext),
     RawSig("badlen")}

\* The expiry times intents carry: none, and one that passes during a run.
Deadlines == {0, 1}

\* A transaction that reverts with error err leaves the storage as it was.
Reverted(err) ==
    UNCHANGED <<nonces, players, nameOf, tileOccupant, lastActiveAt, timestamp, accepted>>

\* The checks the three intent functions start with, in their order; name
\* is bytes12zero only for a set-name with the empty name.
IntentChecks(player, digest, emptyName, nonce, deadline, sig) ==
    LET dl == _checkDeadline(timestamp, deadline)
        un == _useNonce(nonces, player, nonce)
        vf == _verify(player, digest, sig)
    IN  IF ~dl.ok THEN dl
        ELSE IF ~un.ok THEN un
        ELSE IF emptyName THEN Revert("NameEmpty")
        ELSE IF ~vf.ok THEN vf
        ELSE un

\* The intent was executed: its sequence number is consumed.
Consumed(player, nonce, ns) ==
    /\ nonces' = ns
    /\ accepted' = [accepted EXCEPT ![<<player, nonce>>] = @ + 1]

setNameFor(player, newName, nonce, deadline, sig) ==
    LET chk == IntentChecks(player, _digestSetName(player, newName, nonce, deadline),
                            newName = bytes12zero, nonce, deadline, sig)
    IN  IF ~chk.ok THEN Reverted(chk.err)
        ELSE /\ Consumed(player, nonce, chk.v)
             /\ nameOf' = [nameOf EXCEPT ![player] = newName]
             /\ lastActiveAt' = [lastActiveAt EXCEPT ![player] = timestamp]
             /\ UNCHANGED <<players, tileOccupant, timestamp>>

\* joinFor spawning the player whether or not it has joined.
joinForAgain(player, nonce, deadline, sig) ==
    LET chk == IntentChecks(player, _digestJoin(player, nonce, deadline),
                            FALSE, nonce, deadline, sig)
    IN  IF ~chk.ok THEN Reverted(chk.err)
        ELSE /\ Consumed(player, nonce, chk.v)
             /\ lastActiveAt' = [lastActiveAt EXCEPT ![player] = timestamp]
             /\ \E t \in _spawn(tileOccupant, SpawnTiles) :
                  /\ players' = [players EXCEPT ![player] = Player(t[1], t[2], 0, TRUE)]
                  /\ tileOccupant' = setOccupant(tileOccupant, _tileId(t[1], t[2]), player)
             /\ UNCHANGED <<nameOf, timestamp>>

\* _joinIfNeeded(player), the player spawning on tile t if it has not joined.
joinFor(player, nonce, deadline, sig) ==
    LET chk == IntentChecks(player, _digestJoin(player, nonce, deadline),
                            FALSE, nonce, deadline, sig)
    IN  IF ~chk.ok THEN Reverted(chk.err)
        ELSE /\ Consumed(player, nonce, chk.v)
             /\ lastActiveAt' = [lastActiveAt EXCEPT ![player] = timestamp]
             /\ IF players[player].joined
                THEN UNCHANGED <<players, tileOccupant>>
                ELSE \E t \in _spawn(tileOccupant, SpawnTiles) :
                       /\ players' = [players EXCEPT ![player] = Player(t[1], t[2], 0, TRUE)]
                       /\ tileOccupant' = setOccupant(tileOccupant, _tileId(t[1], t[2]), player)
             /\ UNCHANGED <<nameOf, timestamp>>

\* _move(player, dir) for a joined player and dir <= 3: the mappings players
\* and tileOccupant after it, the victim respawning on tile r.
_move(player, dir, r) ==
    LET me == players[player]
        to == _applyDir(me.x, me.y, dir)
        fromTile == _tileId(me.x, me.y)
        toTile == _tileId(to[1], to[2])
        occ1 == setOccupant(tileOccupant, fromTile, address0)
        victim == occupant(occ1, toTile)
        kill == victim # address0 /\ victim # player /\ players[victim].joined
        occ2 == IF kill
                THEN setOccupant(setOccupant(occ1, toTile, address0),
                                 _tileId(r[1], r[2]), victim)
                ELSE occ1
        score == IF kill THEN me.score + 1 ELSE me.score
        pl1 == IF kill
               THEN [players EXCEPT ![victim] = Player(r[1], r[2], 0, TRUE)]
               ELSE players
    IN  IF to = <<me.x, me.y>> THEN [players |-> players, tileOccupant |-> tileOccupant]
        ELSE [players |-> [pl1 EXCEPT ![player] = Player(to[1], to[2], score, TRUE)],
              tileOccupant |-> setOccupant(occ2, toTile, player)]

\* The tiles a victim of player's move in direction dir can respawn on: the
\* tile it was killed on is empty when _spawn probes.
RespawnTiles(player, dir) ==
    LET me == players[player]
        to == _applyDir(me.x, me.y, dir)
        occ == setOccupant(setOccupant(tileOccupant, _tileId(me.x, me.y), address0),
                           _tileId(to[1], to[2]), address0)
    IN  _spawn(occ, SpawnTiles \cup {to})

\* moveFor whose failure after _useNonce keeps the counter that was written:
\* a bad signature, a bad direction or an unjoined player costs the sequence
\* number.
moveForCounting(player, dir, nonce, deadline, sig) ==
    LET chk == IntentChecks(player, _digestMove(player, dir, nonce, deadline),
                            FALSE, nonce, deadline, sig)
        un == _useNonce(nonces, player, nonce)
    IN  IF ~chk.ok \/ dir > 3 \/ ~players[player].joined
        THEN /\ nonces' = IF _checkDeadline(timestamp, deadline).ok /\ un.ok
                          THEN un.v ELSE nonces
             /\ UNCHANGED <<players, nameOf, tileOccupant, lastActiveAt, timestamp, accepted>>
        ELSE /\ Consumed(player, nonce, chk.v)
             /\ lastActiveAt' = [lastActiveAt EXCEPT ![player] = timestamp]
             /\ \E r \in RespawnTiles(player, dir) :
                  LET m == _move(player, dir, r)
                  IN  players' = m.players /\ tileOccupant' = m.tileOccupant
             /\ UNCHANGED <<nameOf, timestamp>>

moveFor(player, dir, nonce, deadline, sig) ==
    LET chk == IntentChecks(player, _digestMove(player, dir, nonce, deadline),
                            FALSE, nonce, deadline, sig)
    IN  IF ~chk.ok THEN Reverted(chk.err)
        ELSE IF dir > 3 THEN Reverted(<<"InvalidDir">>)
        ELSE IF ~players[player].joined THEN Reverted(<<"NotJoined">>)
        ELSE /\ Consumed(player, nonce, chk.v)
             /\ lastActiveAt' = [lastActiveAt EXCEPT ![player] = timestamp]
             /\ \E r \in RespawnTiles(player, dir) :
                  LET m == _move(player, dir, r)
                  IN  players' = m.players /\ tileOccupant' = m.tileOccupant
             /\ UNCHANGED <<nameOf, timestamp>>

\* The checks of kickInactive that let a player be kicked once the timeout
\* is reached, not passed.
kickChecksArenaAtTimeout(player) ==
    IF ~players[player].joined THEN Revert("NotActive")
    ELSE IF timestamp < lastActiveAt[player] + INACTIVITY_TIMEOUT
    THEN Revert("NotInactive")
    ELSE Ok(TRUE)

\* The checks kickInactive starts with.
kickChecksArena(player) ==
    IF ~players[player].joined THEN Revert("NotActive")
    ELSE IF timestamp <= lastActiveAt[player] + INACTIVITY_TIMEOUT
    THEN Revert("NotInactive")
    ELSE Ok(TRUE)

\* kickInactive wiping the sequence counter along with the rest.
kickInactiveFresh(player) ==
    LET p == players[player]
        chk == kickChecksArena(player)
        tile == _tileId(p.x, p.y)
    IN  IF ~chk.ok THEN Reverted(chk.err)
        ELSE /\ tileOccupant' = IF occupant(tileOccupant, tile) = player
                                THEN setOccupant(tileOccupant, tile, address0)
                                ELSE tileOccupant
             /\ players' = [players EXCEPT ![player] = Player(p.x, p.y, 0, FALSE)]
             /\ nameOf' = [nameOf EXCEPT ![player] = bytes12zero]
             /\ lastActiveAt' = [lastActiveAt EXCEPT ![player] = 0]
             /\ nonces' = [nonces EXCEPT ![player] = 0]
             /\ UNCHANGED <<timestamp, accepted>>

kickInactive(player) ==
    LET p == players[player]
        chk == kickChecksArena(player)
        tile == _tileId(p.x, p.y)
    IN  IF ~chk.ok THEN Reverted(chk.err)
        ELSE /\ tileOccupant' = IF occupant(tileOccupant, tile) = player
                                THEN setOccupant(tileOccupant, tile, address0)
                                ELSE tileOccupant
             /\ players' = [players EXCEPT ![player] = Player(p.x, p.y, 0, FALSE)]
             /\ nameOf' = [nameOf EXCEPT ![player] = bytes12zero]
             /\ lastActiveAt' = [lastActiveAt EXCEPT ![player] = 0]
             /\ UNCHANGED <<nonces, timestamp, accepted>>

SetNameTx ==
    \E player \in Actors, newName \in {"hex12", bytes12zero}, nonce \in 0..MaxNonce,
       deadline \in Deadlines :
        \E sig \in SigsFor(player, _digestSetName(player, newName, nonce, deadline),
                          _digestSetName(player, newName, nonce + 1, deadline)) :
            setNameFor(player, newName, nonce, deadline, sig)

JoinTx ==
    \E player \in Actors, nonce \in 0..MaxNonce, deadline \in Deadlines :
        \E sig \in SigsFor(player, _digestJoin(player, nonce, deadline),
                          _digestJoin(player, nonce + 1, deadline)) :
            joinFor(player, nonce, deadline, sig)

MoveTx ==
    \E player \in Actors, dir \in 0..4, nonce \in 0..MaxNonce, deadline \in Deadlines :
        \E sig \in SigsFor(player, _digestMove(player, dir, nonce, deadline),
                          _digestMove(player, dir, nonce + 1, deadline)) :
            moveFor(player, dir, nonce, deadline, sig)

KickTx == \E player \in Actors : kickInactive(player)

\* A later block: time has passed, by the inactivity timeout or just more.
NextBlock ==
    \E d \in {INACTIVITY_TIMEOUT, INACTIVITY_TIMEOUT + 1} :
        /\ timestamp + d <= MaxTime
        /\ timestamp' = timestamp + d
        /\ UNCHANGED <<nonces, players, nameOf, tileOccupant, lastActiveAt, accepted>>

\* The transactions the chain executes, whoever sends them.
ArenaNext ==
    \/ SetNameTx /\ UNCHANGED notArena
    \/ JoinTx /\ UNCHANGED notArena
    \/ MoveTx /\ UNCHANGED notArena
    \/ KickTx /\ UNCHANGED notArena
    \/ NextBlock /\ UNCHANGED notArena

ArenaSpec == Init /\ [][ArenaNext]_vars

------------------------------------------------------------------------------
\* The API routes of the Next.js app (join, set-name, move and kick), which
\* build a signer per request and call the arena themselves

\* What can be wrong with a request of these routes.
RouteDefectsOf(kind) ==
    CASE kind = "join" -> {"none", "badAddr", "badNonce", "sigStranger", "sigBadLen"}
      [] kind = "set-name" -> {"none", "badAddr", "badNonce", "sigStranger", "sigBadLen"}
      [] kind = "move" -> {"none", "badAddr", "badNonce", "sigStranger", "sigBadLen", "badDir"}
      [] OTHER -> {"none", "badAddr"}

\* The handler of a request: its route, the body, the name of a set-name,
\* where it is (awaiting getArena(), awaiting the arena call, done) and its
\* response.
Handler(kind, body, name, phase, reply) ==
    [kind |-> kind, body |-> body, name |-> name, phase |-> phase, reply |-> reply]

\* The handler has answered: nothing refers to its request any longer.
NoBody == [player |-> AddrStr("", "bad"), dir |-> 0, nameBytes12 |-> "", nonce |-> "",
           deadline |-> "", sig |-> RawSig("no0x")]
Answered(kind, reply) == Handler(kind, NoBody, <<>>, "answered", reply)

\* The catch blocks: e.reason || e.message with status 400.
routeCatch(err) == ReplyError(400, err)

\* A route up to its first await after the body was read: the parsing and
\* the checks made before getArena(), or for kick before the arena call.
routeArrive(kind, body, name) ==
    LET n == BigInt(body.nonce)
        dl == BigInt(body.deadline)
    IN  CASE kind = "kick" ->
               IF ~isAddr(body.player)
               THEN Answered(kind, ReplyError(400, <<"Invalid player address">>))
               ELSE Handler(kind, body, name, "calling", NoReply)
          [] ~n.ok -> Answered(kind, routeCatch(n.err))
          [] n.ok /\ ~dl.ok -> Answered(kind, routeCatch(dl.err))
          [] n.ok /\ dl.ok /\ kind = "move" /\ body.dir \notin {0, 1, 2, 3} ->
               Answered(kind, ReplyError(400, <<"Invalid dir">>))
          [] n.ok /\ dl.ok /\ kind = "set-name" /\ trim(name) = <<>> ->
               Answered(kind, ReplyError(400, <<"Name required">>))
          [] OTHER -> Handler(kind, body, name, "getArena", NoReply)

\* A route after getArena(): the digest, the signature check, and the call
\* of the arena function.
routeVerify(h) ==
    LET params == [chainId |-> chainid, arenaAddress |-> ARENA_ADDRESS,
                   player |-> h.body.player, dir |-> h.body.dir,
                   nameBytes12 |-> nameToken(toBytes12FromName(trim(h.name))),
                   nonce |-> BigInt(h.body.nonce).v, deadline |-> BigInt(h.body.deadline).v]
        dig == CASE h.kind = "join" -> libDigestJoin(params)
                 [] h.kind = "set-name" -> libDigestSetName(params)
                 [] OTHER -> libDigestMove(params)
        v == IF dig.ok
             THEN verifyBurnerSignature([player |-> h.body.player, digest |-> dig.v,
                                         sig |-> h.body.sig])
             ELSE dig
    IN  IF ~v.ok THEN Answered(h.kind, routeCatch(v.err))
        ELSE IF ~v.v THEN Answered(h.kind, ReplyError(400, <<"Bad signature">>))
        ELSE [h EXCEPT !.phase = "calling"]

RouteRequest(kind) ==
    /\ Len(direct) < MaxReq
    /\ \E a \in Actors, dir \in Dirs, name \in {<<116, 116>>, <<32, 32>>}, defect \in RouteDefectsOf(kind) :
         /\ kind # "move" \/ defect # "none" => dir = 0
         /\ kind # "set-name" \/ defect # "none" => name = <<116, 116>>
         /\ direct' = Append(direct, routeArrive(kind, MkBody(kind, a, "checksum", dir, defect), name))

RouteJoin == RouteRequest("join")
RouteSetName == RouteRequest("set-name")
RouteMove == RouteRequest("move")
RouteKick == RouteRequest("kick")

\* getArena() has returned.
RouteVerify ==
    \E i \in DOMAIN direct :
        /\ direct[i].phase = "getArena"
        /\ direct' = [direct EXCEPT ![i] = routeVerify(@)]

\* The arena call of a handler comes back with the transaction response or
\* fails.
RouteSettle ==
    \E i \in DOMAIN direct, outcome \in {<<"ok">>} \cup ExtErrors :
        /\ direct[i].phase = "calling"
        /\ direct' = [direct EXCEPT ![i] =
                         Answered(@.kind, IF outcome = <<"ok">> THEN ReplyHash(i)
                                          ELSE routeCatch(outcome))]

RouteNext ==
    \/ RouteJoin /\ UNCHANGED notRoutes
    \/ RouteSetName /\ UNCHANGED notRoutes
    \/ RouteMove /\ UNCHANGED notRoutes
    \/ RouteKick /\ UNCHANGED notRoutes
    \/ RouteVerify /\ UNCHANGED notRoutes
    \/ RouteSettle /\ UNCHANGED notRoutes

RouteSpec == Init /\ [][RouteNext]_vars

------------------------------------------------------------------------------
\* The rate limiter, in front of every route of the relayer

\* The limiter handles a request and records what it did with it.
Limited(req, d) ==
    /\ ipHits' = d.ipHits
    /\ hist' = Recorded(hist, clientIp(req), now, d.reply = NoReply)
    /\ UNCHANGED now

\* The requests of a window that the run still has room for.
Room(req) ==
    LET ip == clientIp(req)
    IN  IF ip \notin DOMAIN hist THEN TRUE
        ELSE IF now > hist[ip].start + windowMs THEN TRUE
        ELSE Len(hist[ip].passed) < MaxHits

\* GET /health: the limiter, then the handler, which reads the chain and
\* changes nothing.
HealthRequest ==
    \E req \in Requests :
        /\ Room(req)
        /\ Limited(req, rateLimit(ipHits, clientIp(req), now))

\* Time passes: a window length, or just more.
Clock ==
    \E d \in {windowMs, windowMs + 1} :
        /\ now + d <= MaxNow
        /\ now' = now + d
        /\ UNCHANGED <<ipHits, hist>>

RateNext ==
    \/ HealthRequest /\ UNCHANGED <<relayerVars, arenaVars, routeVars, clientVars>>
    \/ Clock /\ UNCHANGED <<relayerVars, arenaVars, routeVars, clientVars>>

RateSpec == Init /\ [][RateNext]_vars

\* A route whose handler runs although the limiter has answered.
GatedThrough(req, kind, Route) ==
    /\ Limited(req, rateLimit(ipHits, clientIp(req), now))
    /\ Route

\* app.use(rateLimit) in front of a route: the limiter answers 429 itself, or
\* calls next() and the handler of the route runs in the same turn.
Gated(req, kind, Route) ==
    LET d == rateLimit(ipHits, clientIp(req), now)
    IN  /\ Limited(req, d)
        /\ IF d.reply = NoReply THEN Route
           ELSE /\ MicrotasksDrained
                /\ nreq < MaxReq
                /\ AnswerNow(kind, "none", d.reply)
                /\ UNCHANGED window

GatedJoin == \E req \in Requests : Gated(req, "join", JoinRequest)
GatedSetName == \E req \in Requests : Gated(req, "set-name", SetNameRequest)
GatedMove == \E req \in Requests : Gated(req, "move", MoveRequest)
GatedKick == \E req \in Requests : Gated(req, "kick", KickRequest)

\* The relayer with its limiter, the requests arriving within one window.
GateNext ==
    \/ GatedJoin /\ UNCHANGED <<arenaVars, routeVars, clientVars>>
    \/ GatedSetName /\ UNCHANGED <<arenaVars, routeVars, clientVars>>
    \/ GatedMove /\ UNCHANGED <<arenaVars, routeVars, clientVars>>
    \/ GatedKick /\ UNCHANGED <<arenaVars, routeVars, clientVars>>
    \/ RunTasks /\ UNCHANGED notRelayer
    \/ SettleTasks /\ UNCHANGED notRelayer
    \/ SettleTails /\ UNCHANGED notRelayer
    \/ Responds /\ UNCHANGED notRelayer

GateInit ==
    /\ QueueInit
    /\ ArenaInit
    /\ direct = <<>>
    /\ RateBusy
    /\ nameForm = NoName
    /\ mover = NoMoves

GateSpec == GateInit /\ [][GateNext]_vars

------------------------------------------------------------------------------
\* The names of the game page

\* Longest run of characters before and after the run of "t" in a name.
MaxAffix == 2

\* The names typed: up to MaxAffix characters, a run of "t", and up to
\* MaxAffix characters, which gives names of 0 to 15 characters with
\* blanks, NULs and two-byte characters at both ends.
Affixes == UNION {[1..n -> Chars] : n \in 0..MaxAffix}
Names == {pre \o [i \in 1..n |-> 116] \o suf : pre \in Affixes, suf \in Affixes,
                                            n \in {0, 9, 10, 11}}

\* The player types a name.
TypeName ==
    /\ nameForm.phase = "idle"
    /\ \E name \in Names : nameForm' = NameForm(name, <<>>, Ok(<<>>), "typed")

\* requestSetName(name): the bytes12 that is signed and that the route
\* computes again from the name.
RequestSetName ==
    /\ nameForm.phase = "typed"
    /\ nameForm' = [nameForm EXCEPT !.nameBytes12 = toBytes12FromName(nameForm.name),
                                     !.phase = "sent"]

\* The NameSet event of the contract, which rejects the zero name, comes
\* back with the bytes12 and the page shows the name.
NameSetEvent ==
    /\ nameForm.phase = "sent"
    /\ nameToken(nameForm.nameBytes12) # "zero12"
    /\ nameForm' = [nameForm EXCEPT !.shown = bytes12ToString(nameForm.nameBytes12),
                                     !.phase = "shown"]

NameNext ==
    \/ TypeName /\ UNCHANGED notName
    \/ RequestSetName /\ UNCHANGED notName
    \/ NameSetEvent /\ UNCHANGED notName

NameSpec == Init /\ [][NameNext]_vars

------------------------------------------------------------------------------
\* The send loop of the game page

\* Most key presses of a run.
MaxPress == 3

\* A call of requestMove that entered the loop: the await it is at and the
\* direction it is sending.
Loop(pc, d) == [pc |-> pc, d |-> d]

\* The finally block: moveInFlightRef.current = false, the call i is over.
loopFinally(m, i) ==
    [m EXCEPT !.moveInFlightRef = FALSE, !.loops[i].pc = "done"]

\* The loop of call i from its while test to the next await: it takes the
\* pending direction and asks for the nonce, or it ends.
loopTurn(m, i) ==
    IF m.pendingDirRef = NoDir THEN loopFinally(m, i)
    ELSE IF m.chainId = NoChain
    THEN loopFinally([m EXCEPT !.pendingDirRef = NoDir], i)
    ELSE [m EXCEPT !.pendingDirRef = NoDir,
                   !.loops[i] = Loop("getNonce", m.pendingDirRef)]

\* requestMove(dir), with a name set and a burner key: the direction is
\* noted; unless a move is being sent the call enters the loop.
requestMove(m, dir) ==
    LET noted == [m EXCEPT !.pendingDirRef = dir, !.pressed = Append(@, dir)]
        i == Len(m.loops) + 1
    IN  IF m.moveInFlightRef THEN noted
        ELSE loopTurn([noted EXCEPT !.moveInFlightRef = TRUE,
                                    !.loops = Append(@, Loop("start", dir))], i)

\* A key is pressed.
PressKey ==
    /\ Len(mover.pressed) < MaxPress
    /\ \E dir \in Dirs : mover' = requestMove(mover, dir)

\* The provider reports the network, or the wallet is reset.
NetworkChanges ==
    /\ \E c \in {NoChain, chainid} : c # mover.chainId /\ mover' = [mover EXCEPT !.chainId = c]

\* await getNonce(player) returns, or throws.
NonceReturns ==
    \E i \in DOMAIN mover.loops :
        /\ mover.loops[i].pc = "getNonce"
        /\ \/ mover' = [mover EXCEPT !.loops[i].pc = "signDigest"]
           \/ mover' = loopFinally(mover, i)

\* await signDigest(dig) returns and fetch("/api/move") is called.
FetchCalled ==
    \E i \in DOMAIN mover.loops :
        /\ mover.loops[i].pc = "signDigest"
        /\ mover' = [mover EXCEPT !.loops[i].pc = "fetch",
                                  !.sent = Append(@, mover.loops[i].d)]

\* await fetch returns a response that is ok: the loop goes on.
FetchOk ==
    \E i \in DOMAIN mover.loops :
        /\ mover.loops[i].pc = "fetch"
        /\ mover' = loopTurn(mover, i)

\* await fetch returns a response that is not ok, or throws: the loop stops.
FetchNotOk ==
    \E i \in DOMAIN mover.loops :
        /\ mover.loops[i].pc = "fetch"
        /\ mover' = loopFinally(mover, i)

MoverNext ==
    \/ PressKey /\ UNCHANGED notMover
    \/ NetworkChanges /\ UNCHANGED notMover
    \/ NonceReturns /\ UNCHANGED notMover
    \/ FetchCalled /\ UNCHANGED notMover
    \/ FetchOk /\ UNCHANGED notMover
    \/ FetchNotOk /\ UNCHANGED notMover

MoverSpec == Init /\ [][MoverNext]_vars

------------------------------------------------------------------------------
\* Properties

Range(s) == {s[i] : i \in DOMAIN s}

Running == {k \in DOMAIN tasks : tasks[k].phase = "running"}

\* The move tasks of actor a that wait or run.
MoveTasksOf(a) ==
    {k \in DOMAIN tasks : tasks[k].once /\ tasks[k].key.addr = a /\ Unsettled(k)}

\* Actor a has an entry in the dedupe table.
InFlightFor(a) == \E key \in DOMAIN moveInFlight : key.addr = a

\* This step receives a verified move request of actor a.
MoveArrival(a) ==
    /\ nreq' = nreq + 1
    /\ last'.kind = "move"
    /\ last'.defect = "none"
    /\ last'.actor = a

\* C1: at most one enqueued task is executing (started, not yet settled) at
\* any instant, whatever the requests and their interleaving.
C1_MutualExclusion == Cardinality(Running) <= 1

\* One task executes while another, enqueued meanwhile, waits for it.
C1_Witness ==
    \E j, k \in DOMAIN tasks : tasks[j].phase = "running" /\ tasks[k].phase = "queued"

\* C2: the arena calls are made in the order of the enqueue calls, and a
\* task that has started finds every task enqueued before it settled.
C2_FIFO ==
    /\ \A i \in DOMAIN started : started[i] = i
    /\ \A k \in DOMAIN tasks :
         tasks[k].phase # "queued" => \A j \in 1..(k - 1) : tasks[j].phase = "settled"

\* Three tasks were enqueued, and the third has started after the other two.
C2_Witness == Len(started) = 3 /\ tasks[3].phase = "running"

\* C3: once a task has settled and the reactions are done, the task
\* enqueued after it has started, the same after a failure as after a
\* success; no task is passed over.
C3_FailureDoesNotBlock ==
    \A k \in DOMAIN tasks :
        /\ tasks[k].phase # "skipped"
        /\ k > 1 /\ MicrotasksDrained =>
             /\ runP[k - 1].st = "rejected" => tasks[k].phase \in {"running", "settled"}
             /\ runP[k - 1].st = "fulfilled" => tasks[k].phase \in {"running", "settled"}

\* A task failed and the task enqueued behind it runs.
C3_Witness ==
    \E k \in DOMAIN tasks :
        k > 1 /\ fnP[k - 1].st = "rejected" /\ tasks[k].phase = "running"

\* Each task is called at most once, a task settles only by its own call,
\* and a settled call is not made again.
C4_Once ==
    /\ \A i, j \in DOMAIN started : started[i] = started[j] => i = j
    /\ \A k \in DOMAIN tasks :
         /\ tasks[k].phase # "skipped"
         /\ tasks[k].phase \in {"running", "settled"} <=> k \in Range(started)
         /\ runP[k].st # "pending" <=> tasks[k].phase = "settled"

\* C4: every enqueued task is executed exactly once, never skipped,
\* cancelled or retried, and, the arena calls before it coming back, it
\* eventually starts.
C4_ExactlyOnce ==
    /\ []C4_Once
    /\ \A k \in 1..MaxReq : (k \in DOMAIN tasks) ~> (k \in Range(started))

\* Three tasks have run and settled, the first by failing.
C4_Witness ==
    /\ Len(started) = 3
    /\ fnP[1].st = "rejected"
    /\ \A k \in DOMAIN tasks : tasks[k].phase = "settled"

\* C5: the promise a handler got from enqueue settles as the arena call of
\* its own task does, with the same value or error, and the response is made
\* from it: the hash of its own transaction, or its own error.
C5_OwnOutcome ==
    \A k \in DOMAIN tasks :
        /\ PState(awaiting[k]) = fnP[k]
        /\ replies[k] # NoReply =>
             /\ fnP[k].st = "fulfilled" => replies[k] = ReplyHash(fnP[k].val.hash)
             /\ fnP[k].st = "rejected" =>
                  ~replies[k].ok /\ replies[k].error = fnP[k].val.msg
             /\ fnP[k].st # "pending"

\* A failed task answered with its error between two tasks answered with
\* their own hashes.
C5_Witness ==
    /\ Len(tasks) = 3
    /\ replies[1] = ReplyHash(1)
    /\ replies[2].status = 400
    /\ replies[3] = ReplyHash(3)

\* C6: a verified move request of an actor with an entry in the dedupe table
\* is answered deduped with the promise of the entry; it enqueues no task,
\* leaves queue and table as they are and causes no arena call.
C6_DedupeHit ==
    [][\A a \in Actors :
         MoveArrival(a) /\ InFlightFor(a) =>
            /\ last'.reply = ReplyDeduped
            /\ \E key \in DOMAIN moveInFlight :
                 key.addr = a /\ last'.handle = moveInFlight[key]
            /\ UNCHANGED <<tail, tasks, fnP, runP, tailP, moveInFlight, started,
                           awaiting, replies>>]_vars

\* A move is deduped against a move that still waits behind another task.
C6_Witness ==
    /\ last.reply = ReplyDeduped
    /\ last.handle.t = "run"
    /\ tasks[last.handle.k].phase = "queued"
    /\ tasks[last.handle.k].call.player = last.actor

\* C7: when the arena call of a move task settles, by success or by failure,
\* the actor's entry is gone from the dedupe table; and a verified move
\* request of an actor with no move outstanding is not deduped: it enqueues
\* a new task.
C7_Release ==
    [][/\ \A k \in DOMAIN tasks :
            tasks[k].once /\ tasks[k].phase = "running" /\ tasks'[k].phase = "settled"
               => \A key \in DOMAIN moveInFlight' : key.addr # tasks[k].key.addr
       /\ \A a \in Actors :
            MoveArrival(a) /\ ~Outstanding(a) =>
               /\ ~last'.reply.deduped
               /\ Len(tasks') = Len(tasks) + 1
               /\ last'.task = Len(tasks')
               /\ tasks'[Len(tasks')].call.fn = "moveFor"
               /\ tasks'[Len(tasks')].call.player = a]_vars

\* The move of an actor failed, and the actor's next move was enqueued.
C7_Witness ==
    /\ last.kind = "move"
    /\ last.task > 1
    /\ \E j \in 1..(last.task - 1) :
         /\ tasks[j].once
         /\ tasks[j].key = tasks[last.task].key
         /\ fnP[j].st = "rejected"

\* C8: an actor, however its address is spelled, has at most one entry in
\* the dedupe table and at most one move task waiting or running.
C8_OnePerActor ==
    \A a \in Actors :
        /\ Cardinality({key \in DOMAIN moveInFlight : key.addr = a}) <= 1
        /\ Cardinality(MoveTasksOf(a)) <= 1
        /\ InFlightFor(a) <=> MoveTasksOf(a) # {}

\* Both actors have a move in flight and a further move was deduped.
C8_Witness == Cardinality(DOMAIN moveInFlight) = 2 /\ last.reply.deduped

\* C9 as stated: while a move of an actor is outstanding, the request in the
\* queue is the latest verified move request received for the actor.
C9_LatestReachesQueue ==
    \A a \in Actors : \A k \in MoveTasksOf(a) :
        window[a] # <<>> => tasks[k].rid = window[a][Len(window[a])]

\* C9 as amended: while a move of an actor is outstanding, the request in
\* the queue is the earliest verified move request received for the actor
\* since the submission was created; no later one reaches the queue.
C9_EarliestReachesQueue ==
    \A a \in Actors :
        /\ \A k \in MoveTasksOf(a) : window[a] # <<>> /\ tasks[k].rid = window[a][1]
        /\ \A i \in 2..Len(window[a]) : \A k \in DOMAIN tasks : tasks[k].rid # window[a][i]

\* An actor sent two more verified moves while its first is outstanding.
C9_Witness == \E a \in Actors : Len(window[a]) = 3 /\ MoveTasksOf(a) # {}

\* C10 as stated: a request that fails validation or signature verification
\* is answered with 400, enqueues no task, leaves the dedupe table as it is
\* and causes no arena call.
C10_Rejected400 ==
    [][nreq' = nreq + 1 /\ last'.defect # "none" =>
          /\ last'.reply.status = 400
          /\ ~last'.reply.ok
          /\ UNCHANGED <<tail, tasks, fnP, runP, tailP, moveInFlight, started,
                         awaiting, replies>>]_vars

\* This step executes an intent of p with sequence number n without
\* reverting.
AcceptedIntent(p, n) == accepted'[<<p, n>>] = accepted[<<p, n>>] + 1

\* C11: the contract executes a setNameFor, joinFor or moveFor only if the
\* sequence number it carries equals the actor's counter; the executed intent
\* raises that actor's counter by exactly one and changes no other counter,
\* and a step that executes no intent changes no counter.
C11_SequenceGate ==
    [][/\ \A p \in Actors, n \in 0..MaxNonce :
            AcceptedIntent(p, n) =>
               /\ nonces[p] = n
               /\ nonces' = [nonces EXCEPT ![p] = n + 1]
       /\ accepted' = accepted => nonces' = nonces]_vars

\* One actor had a set-name, a join and a move executed, the other one
\* intent.
C11_Witness ==
    /\ nonces["a"] = 3
    /\ nonces["b"] = 1
    /\ nameOf["a"] = "hex12"
    /\ players["a"].joined
    /\ <<players["a"].x, players["a"].y>> \notin SpawnTiles

\* C12: for any actor and any N, at most one intent with sequence number N
\* is ever executed: the executed ones are exactly those below the counter,
\* each once, and every other submission reverts.
C12_NoReplay ==
    \A p \in Actors, n \in 0..MaxNonce :
        /\ accepted[<<p, n>>] <= 1
        /\ accepted[<<p, n>>] = 1 <=> n < nonces[p]

\* Every sequence number of an actor has been consumed, and each is
\* submitted again from here.
C12_Witness == \A n \in 0..MaxNonce : accepted[<<"a", n>>] = 1

\* C13 as stated: when the arena call of an intent (join, set-name or move)
\* fails with an ordering conflict of the RPC node, the request is answered
\* with 409, whatever the kind of the intent.
C13_Conflict409 ==
    [][\A k \in DOMAIN tasks :
         /\ tasks[k].call.fn \in {"joinFor", "setNameFor", "moveFor"}
         /\ replies[k] = NoReply /\ replies'[k] # NoReply
         /\ fnP[k].st = "rejected" /\ isOrderingConflict(fnP[k].val.msg)
         => replies'[k].status = 409]_vars

\* The arena calls of the API routes that are in progress.
Calling == {i \in DOMAIN direct : direct[i].phase = "calling"}

\* C14 as stated: no two state-changing arena calls made with the relayer's
\* key, from whatever handler, are in progress at the same time.
C14_AllThroughQueue == Cardinality(Running) + Cardinality(Calling) <= 1

\* The requests of the current window of ip that were rejected.
Rejected429(ip) == {i \in DOMAIN hist[ip].passed : ~hist[ip].passed[i]}

\* C15: among the requests of one origin inside one window, the first 25 are
\* passed on and every later one is rejected with 429; after 26 requests
\* exactly one was rejected, the 26th.
C15_Threshold ==
    \A ip \in DOMAIN hist :
        /\ \A i \in DOMAIN hist[ip].passed : hist[ip].passed[i] <=> i <= 25
        /\ Len(hist[ip].passed) = 26 => Rejected429(ip) = {26}

\* An origin has sent 26 requests in its window, the last one at the very
\* end of the window.
C15_Witness ==
    \E ip \in DOMAIN hist :
        /\ Len(hist[ip].passed) = 26
        /\ now = hist[ip].start + windowMs

\* C16: the window of an origin starts with its first request and ends
\* windowMs later whatever requests follow; the counter counts the requests
\* of the window, so the first request after the window expired sets it to 1,
\* and that request is passed on.
C16_WindowReset ==
    \A ip \in DOMAIN hist :
        /\ ip \in DOMAIN ipHits
        /\ ipHits[ip].resetAt = hist[ip].start + windowMs
        /\ ipHits[ip].count = Len(hist[ip].passed)
        /\ hist[ip].passed[1]

\* An origin that was being rejected when its window expired has opened a
\* new window, and its request was passed on.
C16_Witness ==
    \E ip \in DOMAIN hist :
        /\ ~hist[ip].before
        /\ hist[ip].passed = <<TRUE>>
        /\ ipHits[ip].count = 1

\* The limiter rejects the request of this step.
ThrottledStep ==
    \E ip \in DOMAIN hist' :
        /\ IF ip \in DOMAIN hist THEN hist'[ip] # hist[ip] ELSE TRUE
        /\ ~hist'[ip].passed[Len(hist'[ip].passed)]

\* C17: a request the limiter rejects is answered 429 and leaves the queue,
\* its tasks and the dedupe table as they are and causes no arena call; a
\* verified move the limiter passes on is deduped exactly if its actor has
\* an entry in the dedupe table, whatever the limiter's counters, and the
\* arena calls are made in the order of the enqueue calls.
C17_LimiterApart ==
    [][/\ ThrottledStep =>
            /\ last'.reply = ReplyError(429, <<"Rate limited">>)
            /\ UNCHANGED <<tail, tasks, fnP, runP, tailP, moveInFlight, started,
                           awaiting, replies, window>>
       /\ \A a \in Actors :
            MoveArrival(a) /\ ~ThrottledStep => (last'.reply.deduped <=> InFlightFor(a))
       /\ \A i \in DOMAIN started' : started'[i] = i]_vars

\* A request is rejected by the limiter while a move is in flight and a task
\* waits in the queue.
C17_Witness ==
    /\ last.reply.status = 429
    /\ moveInFlight # <<>>
    /\ \E k \in DOMAIN tasks : tasks[k].phase = "queued"

\* C18 as stated: a request that is well-formed but for a signature that is
\* no signature (not 65 bytes, or no hex string) and that reaches the
\* verifier is answered with the authentication error "Bad burner sig".
C18_MalformedSigIsBadSig ==
    [][/\ nreq' = nreq + 1
       /\ last'.kind \in {"join", "set-name", "move"}
       /\ \/ last'.defect = "sigBadLen"
          \/ last'.defect = "sigNo0x" /\ last'.kind # "join"
       => last'.reply = ReplyError(400, <<"Bad burner sig">>)]_vars

IntentKinds == {"join", "set-name", "move"}
IntentFns == {"joinFor", "setNameFor", "moveFor"}

\* What the synchronous part of the handler of an intent route decides.
Decision(kind, body) ==
    CASE kind = "join" -> joinChecks(body)
      [] kind = "set-name" -> setNameChecks(body)
      [] OTHER -> moveChecks(body)

\* The fields of the request parse: an address, numerals, a direction, a
\* 12-byte name.
WellFormed(kind, body) ==
    /\ isAddr(body.player)
    /\ BigInt(body.nonce).ok
    /\ BigInt(body.deadline).ok
    /\ kind = "move" => body.dir \in 0..3
    /\ kind = "set-name" => body.nameBytes12 \in {"hex12", "zero12"}

\* The digest of the fields an intent claims, as the contract computes it.
ClaimedDigest(fn, player, dir, name, nonce, deadline) ==
    CASE fn = "joinFor" -> _digestJoin(player, nonce, deadline)
      [] fn = "setNameFor" -> _digestSetName(player, name, nonce, deadline)
      [] OTHER -> _digestMove(player, dir, nonce, deadline)

\* The signature of a well-formed request was made by the key whose address
\* is the claimed player, compared without regard to case, over the digest
\* of the claimed fields.
Genuine(kind, body) ==
    LET fn == CASE kind = "join" -> "joinFor"
                [] kind = "set-name" -> "setNameFor"
                [] OTHER -> "moveFor"
    IN  /\ body.sig.shape = "sig65"
        /\ toLowerCase(AddrStr(body.sig.signer, "checksum")) = toLowerCase(body.player)
        /\ body.sig.digest = ClaimedDigest(fn, body.player.addr, body.dir, body.nameBytes12,
                                           BigInt(body.nonce).v, BigInt(body.deadline).v)

\* The digests of the intents that differ from the claimed one in the kind,
\* the direction, the name, the sequence or the expiry.
AlteredDigests(fn, player, dir, name, nonce, deadline) ==
    ( {ClaimedDigest(f, player, dir, name, nonce, deadline) : f \in IntentFns}
      \cup {ClaimedDigest(fn, player, d, name, nonce, deadline) : d \in 0..3}
      \cup {ClaimedDigest(fn, player, dir, n, nonce, deadline) : n \in {"hex12", "zero12"}}
      \cup {ClaimedDigest(fn, player, dir, name, n, deadline) : n \in {nonce, nonce + 1}}
      \cup {ClaimedDigest(fn, player, dir, name, nonce, d) : d \in {deadline, deadline + 1}} )
    \ {ClaimedDigest(fn, player, dir, name, nonce, deadline)}

\* C19: a well-formed intent is submitted exactly if its signature was made
\* by the claimed actor over the digest of the claimed kind, actor, payload,
\* sequence and expiry; the same request signed by another key, or signed
\* for another kind, direction, name, sequence or expiry, is answered
\* "Bad burner sig"; every call in the queue carries a genuine signature,
\* and a rejected request reaches neither the queue nor the dedupe table.
C19_VerifiedIffGenuine ==
    [][/\ nreq' = nreq + 1 /\ last'.kind \in IntentKinds =>
            \A a \in Actors, form \in Forms, dir \in Dirs :
                LET body == MkBody(last'.kind, a, form, dir, last'.defect)
                IN  WellFormed(last'.kind, body) =>
                        (Decision(last'.kind, body).submit <=> Genuine(last'.kind, body))
       /\ Len(tasks') = Len(tasks) + 1 /\ tasks'[Len(tasks')].call.fn \in IntentFns =>
            LET c == tasks'[Len(tasks')].call
                kind == last'.kind
                body == MkBody(kind, c.player, "lower", c.dir, "none")
                claimed == ClaimedDigest(c.fn, c.player, c.dir, c.name, c.nonce, c.deadline)
                altered == AlteredDigests(c.fn, c.player, c.dir, c.name, c.nonce, c.deadline)
            IN  /\ Decision(kind, body).call = c
                /\ Cardinality(altered) >= 4
                /\ \A signer \in Actors, dg \in altered \cup {claimed} :
                      signer # c.player \/ dg # claimed =>
                         Decision(kind, [body EXCEPT !.sig = Sign(signer, dg)])
                            = Answer(ReplyError(400, <<"Bad burner sig">>))
       /\ \A k \in DOMAIN tasks' :
            LET c == tasks'[k].call
            IN  c.fn \in IntentFns =>
                   /\ c.sig.shape = "sig65"
                   /\ c.sig.signer = c.player
                   /\ c.sig.digest = ClaimedDigest(c.fn, c.player, c.dir, c.name,
                                                   c.nonce, c.deadline)
       /\ nreq' = nreq + 1 /\ last'.defect \in {"sigStranger", "sigOtherDigest"} =>
            /\ last'.reply = ReplyError(400, <<"Bad burner sig">>)
            /\ UNCHANGED <<tail, tasks, fnP, runP, tailP, moveInFlight, started,
                           awaiting, replies>>]_vars

\* A request signed for another sequence number was rejected after two
\* genuine intents were submitted.
C19_Witness ==
    /\ last.defect = "sigOtherDigest"
    /\ last.reply = ReplyError(400, <<"Bad burner sig">>)
    /\ Len(tasks) = 2
    /\ \A k \in DOMAIN tasks : tasks[k].call.fn \in IntentFns

\* C20: for the fields of every intent call the relayer has queued, the
\* relayer's digest and the client's digest equal the contract's (domain of
\* chain id then address, discriminators 0, 1, 2, same field order), and the
\* contract's signature check passes for the call.
C20_DigestAgreement ==
    \A k \in DOMAIN tasks :
        LET c == tasks[k].call
            onChain == ClaimedDigest(c.fn, c.player, c.dir, c.name, c.nonce, c.deadline)
        IN  c.fn \in IntentFns =>
               /\ \A form \in Forms :
                    LET params == [chainId |-> chainid, arenaAddress |-> ARENA_ADDRESS,
                                   player |-> AddrStr(c.player, form), dir |-> c.dir,
                                   nameBytes12 |-> c.name, nonce |-> c.nonce,
                                   deadline |-> c.deadline]
                    IN  CASE c.fn = "joinFor" ->
                               /\ digestJoin(params) = onChain
                               /\ libDigestJoin(params).v = onChain
                          [] c.fn = "setNameFor" ->
                               /\ digestSetName(params).v = onChain
                               /\ libDigestSetName(params).v = onChain
                          [] OTHER ->
                               /\ digestMove(params) = onChain
                               /\ libDigestMove(params).v = onChain
               /\ _verify(c.player, onChain, c.sig).ok

\* A join, a set-name and a move that the relayer verified are in the queue.
C20_Witness ==
    /\ Len(tasks) = 3
    /\ {tasks[k].call.fn : k \in DOMAIN tasks} = IntentFns

\* C21: a request is answered in the turn it arrives or awaits the task it
\* enqueued, never both; a request that fails validation or authentication
\* or is throttled is answered at once with ok:false; a response once sent
\* is never replaced; the response to a task whose arena call failed is
\* ok:false, one with ok:true is sent only for a call that succeeded; and
\* once the reactions that are due have run, only requests whose own call is
\* still outstanding are unanswered.
C21_EveryFailureAnswered ==
    [][/\ nreq' = nreq + 1 =>
            /\ last'.reply = NoReply <=>
                  /\ Len(tasks') = Len(tasks) + 1
                  /\ last'.task = Len(tasks')
                  /\ tasks'[last'.task].rid = nreq'
                  /\ replies'[last'.task] = NoReply
            /\ last'.reply # NoReply => UNCHANGED <<tasks, replies>>
            /\ last'.defect # "none" \/ ThrottledStep =>
                  /\ last'.reply # NoReply
                  /\ ~last'.reply.ok
                  /\ last'.reply.status \in {400, 409, 429}
                  /\ last'.reply.error # <<>>
       /\ \A k \in DOMAIN tasks : replies[k] # NoReply => replies'[k] = replies[k]
       /\ \A k \in DOMAIN tasks' :
            /\ replies'[k] # NoReply /\ fnP'[k].st = "rejected" =>
                  /\ ~replies'[k].ok
                  /\ replies'[k].status \in {400, 409}
                  /\ replies'[k].error = fnP'[k].val.msg
            /\ replies'[k].ok => fnP'[k].st = "fulfilled"
            /\ MicrotasksDrained' /\ fnP'[k].st # "pending" => replies'[k] # NoReply]_vars

\* A move whose call failed with a conflict was answered 409, a join was
\* answered with its hash, and a third request was throttled.
C21_Witness ==
    /\ Len(tasks) = 2
    /\ replies[1].status = 409
    /\ fnP[1].st = "rejected"
    /\ replies[2] = ReplyHash(2)
    /\ last.reply.status = 429

\* C22: in every step the sequence counter of an actor stays or grows by
\* one; it grows exactly when an intent with that sequence is executed; no
\* intent with another sequence is executed, joined or not; and a step that
\* takes an actor from Joined to Unjoined leaves every counter as it is, so
\* the sequences used before a kick stay used after it.
C22_SequenceMonotone ==
    [][\A p \in Actors :
         /\ nonces'[p] \in {nonces[p], nonces[p] + 1}
         /\ \A n \in 0..MaxNonce :
              /\ accepted'[<<p, n>>] \in {accepted[<<p, n>>], accepted[<<p, n>>] + 1}
              /\ accepted'[<<p, n>>] # accepted[<<p, n>>] <=>
                    nonces[p] = n /\ nonces'[p] = n + 1
              /\ n < nonces[p] => accepted'[<<p, n>>] = 1
         /\ players[p].joined /\ ~players'[p].joined => UNCHANGED <<nonces, accepted>>]_vars

\* An actor was kicked after two intents of its were executed: it is
\* unjoined, its activity time is wiped, its counter still stands at 2.
C22_Witness ==
    \E p \in Actors :
        /\ ~players[p].joined
        /\ lastActiveAt[p] = 0
        /\ nonces[p] = 2
        /\ accepted[<<p, 0>>] = 1 /\ accepted[<<p, 1>>] = 1

\* This step executes a join intent of p.
JoinAccepted(p) ==
    /\ accepted' # accepted
    /\ \E nonce \in 0..MaxNonce, deadline \in Deadlines :
         joinFor(p, nonce, deadline, Sign(p, _digestJoin(p, nonce, deadline)))

\* C23: an executed join of an unjoined actor makes it joined with score 0
\* on a tile that was empty and that it now occupies, and moves nobody else;
\* an executed join of a joined actor leaves every player record and the
\* tile occupancy as they are; either way the sequence number is consumed.
C23_JoinIdempotent ==
    [][\A p \in Actors :
         JoinAccepted(p) =>
            /\ nonces'[p] = nonces[p] + 1
            /\ IF players[p].joined
               THEN UNCHANGED <<players, tileOccupant, nameOf>>
               ELSE LET me == players'[p]
                        tile == _tileId(me.x, me.y)
                    IN  /\ me.joined /\ me.score = 0
                        /\ occupant(tileOccupant, tile) = address0
                        /\ tileOccupant' = setOccupant(tileOccupant, tile, p)
                        /\ \A q \in Actors \ {p} : players'[q] = players[q]]_vars

\* An actor whose two executed intents, in the first block, left it joined
\* with no name, score 0, on the spawn tile it occupies, next to the other
\* actor.
C23_Witness ==
    \E p \in Actors :
        /\ nonces[p] = 2 /\ lastActiveAt[p] = 1
        /\ players[p].joined /\ players[p].score = 0
        /\ nameOf[p] = bytes12zero
        /\ occupant(tileOccupant, _tileId(players[p].x, players[p].y)) = p
        /\ players[OtherActor(p)].joined

\* The expiry times the property is evaluated for: none, the first block's
\* time and the times of the later blocks.
Expiries == {0, 1, INACTIVITY_TIMEOUT + 1, MaxTime}

\* The chain can execute a genuine intent of p with sequence n and expiry d.
CanJoin(p, n, d) ==
    ENABLED (/\ joinFor(p, n, d, Sign(p, _digestJoin(p, n, d)))
             /\ nonces' # nonces)
CanSetName(p, n, d) ==
    ENABLED (/\ setNameFor(p, "hex12", n, d, Sign(p, _digestSetName(p, "hex12", n, d)))
             /\ nonces' # nonces)
CanMove(p, dir, n, d) ==
    ENABLED (/\ moveFor(p, dir, n, d, Sign(p, _digestMove(p, dir, n, d)))
             /\ nonces' # nonces)

\* C24: whatever the sequence number and the signature, the checks of an
\* intent end in Expired exactly if its expiry is not 0 and the block time
\* is greater; a genuine intent with the actor's current sequence can be
\* executed exactly if it is not expired (a move: and the actor has
\* joined), so expiry 0 never expires; and no expired intent, whatever its
\* sequence, can be executed or change the counter.
C24_ExpirySentinel ==
    \A p \in Actors, d \in Expiries :
        LET expired == d # 0 /\ timestamp > d
        IN  /\ \A n \in 0..MaxNonce :
                 \A sig \in SigsFor(p, _digestJoin(p, n, d), _digestJoin(p, n + 1, d)) :
                    LET chk == IntentChecks(p, _digestJoin(p, n, d), FALSE, n, d, sig)
                    IN  (~chk.ok /\ chk.err = <<"Expired">>) <=> expired
            /\ \A n \in 0..MaxNonce :
                 /\ CanJoin(p, n, d) <=> ~expired /\ n = nonces[p]
                 /\ CanSetName(p, n, d) <=> ~expired /\ n = nonces[p]
                 /\ \A dir \in 0..3 :
                      CanMove(p, dir, n, d) <=>
                         ~expired /\ n = nonces[p] /\ players[p].joined

\* An intent was executed in a later block: its expiry was 0, and the
\* intents with expiry 1 are expired.
C24_Witness ==
    \E p \in Actors :
        /\ timestamp > 1
        /\ lastActiveAt[p] = timestamp
        /\ nonces[p] \in 1..MaxNonce

\* The chain can execute kickInactive(p) with the effect the contract gives
\* it: the player unjoined, its score, name and activity time wiped, its
\* tile freed, the sequence counters untouched.
CanKick(p) ==
    ENABLED (/\ kickInactive(p)
             /\ players' # players
             /\ ~players'[p].joined /\ players'[p].score = 0
             /\ nameOf'[p] = bytes12zero /\ lastActiveAt'[p] = 0
             /\ \A t \in DOMAIN tileOccupant' : tileOccupant'[t] # p
             /\ nonces' = nonces)

\* kickInactive(p) can leave the storage as it is.
KickReverts(p) == ENABLED (kickInactive(p) /\ UNCHANGED arenaVars)

\* C25: the relayer's /kick checks nothing but the shape of the address: a
\* request with an address is turned into the call kickInactive(player)
\* with no signature, any other is answered "Bad player address", whatever
\* the state of the contract.  The contract executes kickInactive exactly if
\* the player is joined and the block time is more than 15 s past its
\* activity time, which is the time of its last executed intent; otherwise
\* the call reverts, NotActive for an unjoined player and NotInactive for
\* an active one, and changes nothing.
C25_KickPrecondition ==
    /\ \A a \in Actors, form \in Forms \cup {"noprefix", "bad"} :
         LET body == [MkBody("kick", a, "lower", 0, "none") EXCEPT !.player = AddrStr(a, form)]
             decision == kickChecks(body)
         IN  IF isAddr(body.player)
             THEN /\ decision.submit
                  /\ decision.call.fn = "kickInactive"
                  /\ decision.call.sig = NoCall.sig
             ELSE decision = Answer(ReplyError(400, <<"Bad player address">>))
    /\ \A p \in Actors :
         LET inactive == players[p].joined
                           /\ timestamp - lastActiveAt[p] > INACTIVITY_TIMEOUT
             chk == kickChecksArena(p)
         IN  /\ CanKick(p) <=> inactive
             /\ KickReverts(p) <=> ~inactive
             /\ chk.ok <=> inactive
             /\ ~players[p].joined => chk = Revert("NotActive")
             /\ players[p].joined /\ ~inactive => chk = Revert("NotInactive")
             /\ players[p].joined =>
                  /\ lastActiveAt[p] \in 1..timestamp
                  /\ nonces[p] >= 1

\* One actor was kicked in the last block and its tile is free, while the
\* other, active 16 s after the first block, cannot be kicked.
C25_Witness ==
    \E p \in Actors :
        /\ ~players[p].joined /\ lastActiveAt[p] = 0 /\ nonces[p] >= 1
        /\ \A t \in DOMAIN tileOccupant : tileOccupant[t] # p
        /\ players[OtherActor(p)].joined
        /\ lastActiveAt[OtherActor(p)] = timestamp
        /\ timestamp = MaxTime

\* The promise reactions that are due.
ReactionsDue ==
    {k \in DOMAIN tasks : RunTaskDue(k) \/ SettleTailDue(k) \/ RespondDue(k)}

\* A genuine request of actor a can be handled now and is enqueued.
CanEnqueue(a) ==
    /\ ENABLED (JoinRequest /\ last'.actor = a /\ last'.task = Len(tasks) + 1)
    /\ ENABLED (SetNameRequest /\ last'.actor = a /\ last'.task = Len(tasks) + 1)
    /\ ENABLED (KickRequest /\ last'.actor = a /\ last'.task = Len(tasks) + 1)

\* A genuine move of actor a can be handled now, and is deduped / enqueued.
CanDedupe(a) == ENABLED (MoveRequest /\ last'.actor = a /\ last'.reply = ReplyDeduped)
CanEnqueueMove(a) == ENABLED (MoveRequest /\ last'.actor = a /\ last'.task = Len(tasks) + 1)

\* C26: while an arena call is outstanding and no reaction is due, a request
\* of any kind can be handled at once: a join, set-name or kick is enqueued,
\* a move is deduped if its actor has a move in flight and enqueued if not.
\* The step that handles a request while a call is outstanding validates
\* it, answers or appends its task to the end of the queue, and neither
\* starts nor settles anything: the executing task keeps executing and the
\* new task waits.
C26_AcceptanceNotBlocked ==
    /\ [](Running # {} /\ ReactionsDue = {} /\ nreq < MaxReq =>
             \A a \in Actors :
                 /\ CanEnqueue(a)
                 /\ IF InFlightFor(a) THEN CanDedupe(a) ELSE CanEnqueueMove(a))
    /\ [][nreq' = nreq + 1 /\ Running # {} =>
            /\ Running' = Running
            /\ \A a \in Actors : MoveArrival(a) => (last'.reply = ReplyDeduped <=> InFlightFor(a))
            /\ last'.reply # NoReply => UNCHANGED <<tasks, tail, started, fnP, runP, tailP>>
            /\ last'.reply = NoReply =>
                  /\ Len(tasks') = Len(tasks) + 1
                  /\ \A k \in DOMAIN tasks : tasks'[k] = tasks[k]
                  /\ tasks'[Len(tasks')].phase = "queued"
                  /\ tail' = TailRef(Len(tasks'))
                  /\ started' = started
                  /\ fnP'[Len(tasks')] = Pending]_vars

\* Two requests were enqueued behind a task that is still executing.
C26_Witness ==
    /\ Len(tasks) = 3
    /\ tasks[1].phase = "running"
    /\ tasks[2].phase = "queued"
    /\ tasks[3].phase = "queued"
    /\ fnP[1] = Pending

\* The arena call of task k has not come back.
Stuck(k) == tasks[k].phase \in {"queued", "running"} /\ fnP[k] = Pending

\* C27: as long as the arena call of a task has not settled, no task
\* enqueued after it starts, settles or is answered, and its tail stays
\* pending; a move task that has not settled, executing or waiting behind
\* such a task, keeps its entry in the dedupe table, the entry is removed
\* only by the step that settles that task's call, and every verified move
\* of its actor arriving meanwhile is answered deduped and enqueues nothing.
\* A task that never settles therefore stalls all later tasks for ever.
C27_Stall ==
    [][/\ \A k \in DOMAIN tasks' :
            Stuck(k)' =>
               /\ tailP'[k] = Pending
               /\ \A j \in DOMAIN tasks' :
                    j > k => /\ tasks'[j].phase = "queued"
                             /\ Stuck(j)'
                             /\ replies'[j] = NoReply
                             /\ \A i \in DOMAIN started' : started'[i] # j
       /\ \A k \in DOMAIN tasks' :
            tasks'[k].once /\ Stuck(k)' =>
               /\ hasInFlight(moveInFlight', tasks'[k].key)
               /\ moveInFlight'[tasks'[k].key] = RunRef(k)
       /\ \A key \in DOMAIN moveInFlight :
            ~hasInFlight(moveInFlight', key) =>
               \E k \in DOMAIN tasks :
                  /\ tasks[k].once /\ tasks[k].key = key
                  /\ tasks[k].phase = "running" /\ fnP[k] = Pending /\ fnP'[k] # Pending
       /\ \A a \in Actors :
            MoveArrival(a) /\ (\E k \in MoveTasksOf(a) : Stuck(k)) =>
               /\ last'.reply = ReplyDeduped
               /\ UNCHANGED <<tasks, tail, started, moveInFlight>>]_vars

\* A move is executing, the move of the other actor waits behind it, and a
\* further move of that actor has just been answered deduped.
C27_Witness ==
    /\ Len(tasks) = 2
    /\ tasks[1].once /\ tasks[1].phase = "running" /\ fnP[1] = Pending
    /\ tasks[2].once /\ tasks[2].phase = "queued"
    /\ last.kind = "move" /\ last.reply = ReplyDeduped
    /\ last.actor = tasks[2].key.addr
    /\ nreq = 3

\* Every character of s is one byte in UTF-8.
SingleByte(s) == \A i \in DOMAIN s : s[i] < 128
NoTrailingNUL(s) == s = <<>> \/ s[Len(s)] # 0

\* The encoding of every name is 12 bytes, the first 12 bytes of the
\* trimmed name or all of them followed by zeros.
TwelveBytes ==
    nameForm.phase \in {"sent", "shown"} =>
        LET raw == getBytes(nameForm.nameBytes12)
            t == toUtf8Bytes(trim(nameForm.name))
        IN  /\ Len(nameForm.nameBytes12) = 24
            /\ Len(raw) = 12
            /\ hexlify(raw) = nameForm.nameBytes12
            /\ \A i \in 1..12 : raw[i] = IF i <= Len(t) THEN t[i] ELSE 0

\* C28 as stated: the name shown for a name of at most 12 single-byte
\* characters that does not end in NUL is the trimmed name.
C28_RoundTripOfName ==
    /\ TwelveBytes
    /\ nameForm.phase = "shown" /\ Len(nameForm.name) <= 12
         /\ SingleByte(nameForm.name) /\ NoTrailingNUL(nameForm.name)
       => nameForm.shown = Ok(trim(nameForm.name))

\* C28, amended: the name shown for a name whose trimmed form has at most
\* 12 single-byte characters and does not end in NUL is the trimmed name;
\* the encoding of every name is exactly 12 bytes, a longer name being cut.
C28_RoundTripOfTrimmedName ==
    /\ TwelveBytes
    /\ LET t == trim(nameForm.name)
       IN  nameForm.phase = "shown" /\ Len(t) <= 12 /\ SingleByte(t) /\ NoTrailingNUL(t)
           => nameForm.shown = Ok(t)

\* " tej" was typed and "tej" is shown.
C28_Witness ==
    /\ nameForm.phase = "shown"
    /\ nameForm.name = <<32, 116, 101, 106>>
    /\ nameForm.shown = Ok(<<116, 101, 106>>)

\* The arena function a route submits.
FnOfRoute(kind) ==
    CASE kind = "join" -> "joinFor"
      [] kind = "set-name" -> "setNameFor"
      [] kind = "kick" -> "kickInactive"
      [] OTHER -> "moveFor"

\* The tasks of actor a that wait or run and are not moves.
PlainTasksOf(a) ==
    {k \in DOMAIN tasks :
        tasks[k].call.fn \in {"joinFor", "setNameFor", "kickInactive"}
        /\ tasks[k].call.player = a /\ Unsettled(k)}

\* C29: a genuine join, set-name or kick request appends its own task to the
\* queue and leaves the dedupe table as it was, whether or not its actor has
\* a move in flight; the table holds entries of unsettled move tasks only,
\* so that a genuine move of an actor without a move in flight is enqueued
\* even while a join, set-name or kick of that actor is in flight.
C29_DedupeMoveOnly ==
    [][/\ \A key \in DOMAIN moveInFlight' :
            \E k \in DOMAIN tasks' :
               /\ tasks'[k].once /\ tasks'[k].key = key
               /\ tasks'[k].call.fn = "moveFor"
               /\ tasks'[k].phase \in {"queued", "running"}
       /\ \A k \in DOMAIN tasks' :
            tasks'[k].call.fn \in {"joinFor", "setNameFor", "kickInactive"} =>
               ~tasks'[k].once /\ tasks'[k].key = NoKey
       /\ nreq' = nreq + 1 /\ last'.kind \in {"join", "set-name", "kick"}
            /\ last'.defect = "none" =>
               /\ Len(tasks') = Len(tasks) + 1
               /\ \A k \in DOMAIN tasks : tasks'[k] = tasks[k]
               /\ last'.task = Len(tasks')
               /\ last'.reply = NoReply
               /\ tasks'[Len(tasks')].call.fn = FnOfRoute(last'.kind)
               /\ tasks'[Len(tasks')].call.player = last'.actor
               /\ tasks'[Len(tasks')].rid = nreq'
               /\ tail' = TailRef(Len(tasks'))
               /\ moveInFlight' = moveInFlight
       /\ \A a \in Actors :
            MoveArrival(a) /\ MoveTasksOf(a) = {} =>
               /\ last'.reply = NoReply
               /\ last'.task = Len(tasks) + 1
               /\ tasks'[Len(tasks')].call.fn = "moveFor"
               /\ hasInFlight(moveInFlight', moveKey(AddrStr(a, "lower")))]_vars

\* A move of an actor was enqueued while a join of that actor was in flight,
\* and a set-name of the actor has just been enqueued while both are.
C29_Witness ==
    /\ Len(tasks) = 3
    /\ \A k \in DOMAIN tasks : tasks[k].call.player = "a" /\ Unsettled(k)
    /\ tasks[1].call.fn = "joinFor"
    /\ tasks[2].call.fn = "moveFor"
    /\ tasks[3].call.fn = "setNameFor"
    /\ last.kind = "set-name" /\ last.task = 3
    /\ DOMAIN moveInFlight = {moveKey(AddrStr("a", "lower"))}
    /\ PlainTasksOf("a") = {1, 3}

\* The request handled in this turn was deduped against task k, which
\* executes.
DedupedAgainstRunning(k) ==
    /\ last.reply = ReplyDeduped
    /\ last.handle = RunRef(k)
    /\ k \in DOMAIN tasks
    /\ tasks[k].phase = "running"

\* C30: a verified move of an actor with a move in flight is answered in the
\* turn it arrives with status 200, ok, deduped and no hash, while the
\* promise it was deduped against is pending, and no handler is left
\* waiting for it; the submission it refers to can still succeed and can
\* still fail; a task enters the queue only in the turn of its own request,
\* which is not answered in that turn, so that the call of a deduped request
\* is never submitted; and the responses given when a promise settles are
\* those of the requests that enqueued a task, never deduped.
C30_DedupedAnswer ==
    /\ [](\A k \in DOMAIN tasks :
             DedupedAgainstRunning(k) /\ MicrotasksDrained =>
                /\ ENABLED (SettleTask(k, <<"ok">>) /\ UNCHANGED notRelayer)
                /\ \A e \in ExtErrors : ENABLED (SettleTask(k, e) /\ UNCHANGED notRelayer))
    /\ [][/\ \A a \in Actors :
               MoveArrival(a) /\ InFlightFor(a) =>
                  /\ last'.reply.status = 200
                  /\ last'.reply.ok /\ last'.reply.deduped
                  /\ last'.reply.hash = 0 /\ last'.reply.error = <<>>
                  /\ last'.task = 0
                  /\ last'.handle.t = "run"
                  /\ runP'[last'.handle.k] = Pending
                  /\ tasks'[last'.handle.k].rid # last'.rid
                  /\ \A k \in DOMAIN tasks' : tasks'[k].rid # last'.rid
                  /\ awaiting' = awaiting /\ replies' = replies
          /\ Len(tasks') # Len(tasks) =>
               /\ Len(tasks') = Len(tasks) + 1
               /\ nreq' = nreq + 1
               /\ tasks'[Len(tasks')].rid = nreq'
               /\ last'.rid = nreq' /\ last'.reply = NoReply
          /\ \A k \in DOMAIN tasks :
               /\ tasks'[k].rid \in {tasks[k].rid, 0}
               /\ tasks'[k].call \in {tasks[k].call, NoCall}
               /\ replies'[k] # replies[k] =>
                    /\ replies[k] = NoReply
                    /\ ~replies'[k].deduped
                    /\ tasks[k].rid # 0
          /\ last'.reply.deduped => \E a \in Actors : MoveArrival(a) /\ InFlightFor(a)]_vars

\* The second verified move of an actor has just been answered deduped
\* while the first, the only task of the queue, executes.
C30_Witness ==
    /\ \E k \in DOMAIN tasks : DedupedAgainstRunning(k) /\ fnP[k] = Pending
    /\ \E a \in Actors : Len(window[a]) = 2 /\ last.actor = a
    /\ Len(tasks) = 1

\* This step executes a move of p in direction dir.
MoveAccepted(p, dir) ==
    /\ accepted' # accepted
    /\ \E nonce \in 0..MaxNonce, deadline \in Deadlines :
         moveFor(p, dir, nonce, deadline, Sign(p, _digestMove(p, dir, nonce, deadline)))

\* One step from (x, y) in direction dir, kept on the grid.
Clamped(v) == IF v < 0 THEN 0 ELSE IF v > MAP_SIZE - 1 THEN MAP_SIZE - 1 ELSE v
Shifted(x, y, dir) ==
    CASE dir = 0 -> <<Clamped(x), Clamped(y - 1)>>
      [] dir = 1 -> <<Clamped(x), Clamped(y + 1)>>
      [] dir = 2 -> <<Clamped(x - 1), Clamped(y)>>
      [] OTHER -> <<Clamped(x + 1), Clamped(y)>>

\* The position of p, and the positions opposite to it on the grid.
Mirrors(p) ==
    {players[p].x, MAP_SIZE - 1 - players[p].x} \X {players[p].y, MAP_SIZE - 1 - players[p].y}

\* What C31 says of the position and of the sequence counter.
MovedAndCounted(p, dir) ==
    LET me == players[p]
        new == players'[p]
    IN  /\ <<new.x, new.y>> = Shifted(me.x, me.y, dir)
        /\ new.joined
        /\ nonces'[p] = nonces[p] + 1
        /\ \A m \in Mirrors(p) : _applyDir(m[1], m[2], dir) = Shifted(m[1], m[2], dir)
        /\ Shifted(me.x, me.y, dir) = <<me.x, me.y>> => UNCHANGED <<players, tileOccupant>>

Kills(p, dir, v) ==
    /\ MoveAccepted(p, dir)
    /\ v # p /\ players[v].joined
    /\ Shifted(players[p].x, players[p].y, dir) # <<players[p].x, players[p].y>>
    /\ LET to == Shifted(players[p].x, players[p].y, dir)
       IN  occupant(tileOccupant, _tileId(to[1], to[2])) = v

\* C32: when a joined player A moves onto a tile occupied by another joined
\* player B, A's score goes up by one, B's score becomes 0 and B stays
\* joined, A is on the destination tile and its occupant, A's origin tile is
\* empty, and B is the occupant of the tile it respawned on.
C32_CollisionKill ==
    [][\A p \in Actors, v \in Actors, dir \in 0..3 :
         Kills(p, dir, v) =>
            LET me == players[p]
                to == Shifted(me.x, me.y, dir)
            IN  /\ players'[p] = Player(to[1], to[2], me.score + 1, TRUE)
                /\ players'[v].score = 0
                /\ players'[v].joined
                /\ occupant(tileOccupant', _tileId(to[1], to[2])) = p
                /\ occupant(tileOccupant', _tileId(me.x, me.y)) = address0
                /\ occupant(tileOccupant', _tileId(players'[v].x, players'[v].y)) = v]_vars

\* C33: after a kill the victim's position is not the tile it was killed on.
C33_RespawnElsewhere ==
    [][\A p \in Actors, v \in Actors, dir \in 0..3 :
         Kills(p, dir, v) =>
            <<players'[v].x, players'[v].y>> # Shifted(players[p].x, players[p].y, dir)]_vars

\* The call A can be made, and whenever it is made every variable is left
\* as it was.
LeavesAll(A) ==
    /\ ENABLED (A /\ UNCHANGED vars)
    /\ ~ENABLED (A /\ UNCHANGED notArena /\ vars' # vars)

\* The revert reason of the checks an intent of p starts with.
ChecksFail(digest, p, emptyName, nonce, deadline, sig, reason) ==
    LET chk == IntentChecks(p, digest, emptyName, nonce, deadline, sig)
    IN  ~chk.ok /\ chk.err = <<reason>>

\* The intents of p that fail with reason, p's counter being n: signed by
\* the other key, sent with the next sequence number, sent after their
\* expiry, naming the empty name.
SetNameFails(p, name, n, deadline, signer, reason) ==
    LET dg == _digestSetName(p, name, n, deadline)
    IN  /\ ChecksFail(dg, p, name = bytes12zero, n, deadline, Sign(signer, dg), reason)
        /\ LeavesAll(setNameFor(p, name, n, deadline, Sign(signer, dg)))
JoinFails(p, n, deadline, signer, reason) ==
    LET dg == _digestJoin(p, n, deadline)
    IN  /\ ChecksFail(dg, p, FALSE, n, deadline, Sign(signer, dg), reason)
        /\ LeavesAll(joinFor(p, n, deadline, Sign(signer, dg)))
MoveFails(p, n, deadline, signer, reason) ==
    LET dg == _digestMove(p, 0, n, deadline)
    IN  /\ ChecksFail(dg, p, FALSE, n, deadline, Sign(signer, dg), reason)
        /\ LeavesAll(moveFor(p, 0, n, deadline, Sign(signer, dg)))

\* A move of p that passes the checks of the intent and is made in a
\* direction that does not exist, or by a player that has not joined.
MovePasses(p, dir) ==
    LET dg == _digestMove(p, dir, nonces[p], 0)
    IN  /\ IntentChecks(p, dg, FALSE, nonces[p], 0, Sign(p, dg)).ok
        /\ LeavesAll(moveFor(p, dir, nonces[p], 0, Sign(p, dg)))

\* C34: in every state, a setNameFor, joinFor or moveFor that fails with
\* BadSig (signed by the other key), BadNonce, Expired, NameEmpty,
\* InvalidDir or NotJoined leaves the sequence counters, the names, the
\* player records, the tiles and the last-active times as they were, though
\* the sequence number it carries is the one _useNonce would take.
C34_RejectedChangesNothing ==
    \A p \in Actors :
        LET n == nonces[p]
            q == OtherActor(p)
        IN  /\ SetNameFails(p, "hex12", n, 0, q, "BadSig")
            /\ JoinFails(p, n, 0, q, "BadSig")
            /\ MoveFails(p, n, 0, q, "BadSig")
            /\ SetNameFails(p, "hex12", n + 1, 0, p, "BadNonce")
            /\ JoinFails(p, n + 1, 0, p, "BadNonce")
            /\ MoveFails(p, n + 1, 0, p, "BadNonce")
            /\ timestamp > 1 =>
                  /\ SetNameFails(p, "hex12", n, 1, p, "Expired")
                  /\ JoinFails(p, n, 1, p, "Expired")
                  /\ MoveFails(p, n, 1, p, "Expired")
            /\ SetNameFails(p, bytes12zero, n, 0, p, "NameEmpty")
            /\ MovePasses(p, 4)
            /\ ~players[p].joined => MovePasses(p, 0)

\* In a later block, with one player joined, named and moved and the other
\* not joined, intents of each kind fail for each of the reasons.
C34_Witness ==
    /\ timestamp > 1
    /\ players["a"].joined /\ players["a"].y = 1 /\ nameOf["a"] = "hex12"
    /\ ~players["b"].joined
    /\ MovePasses("b", 0) /\ MovePasses("a", 4)
    /\ MoveFails("a", nonces["a"], 0, "b", "BadSig")
    /\ JoinFails("a", nonces["a"], 1, "a", "Expired")

\* C35: each joined player is the occupant of the tile at its coordinates,
\* the occupant of each tile that is not empty is a joined player located on
\* that tile, and no two joined players have the same coordinates.
C35_GridConsistent ==
    /\ \A p \in Actors :
         players[p].joined => occupant(tileOccupant, _tileId(players[p].x, players[p].y)) = p
    /\ \A t \in DOMAIN tileOccupant :
         /\ tileOccupant[t] \in Actors
         /\ players[tileOccupant[t]].joined
         /\ _tileId(players[tileOccupant[t]].x, players[tileOccupant[t]].y) = t
    /\ \A p \in Actors, q \in Actors :
         p # q /\ players[p].joined /\ players[q].joined =>
            <<players[p].x, players[p].y>> # <<players[q].x, players[q].y>>

\* No task waits or executes.
QueueIdle == \A k \in DOMAIN tasks : ~Unsettled(k)

\* C36: whenever no task waits or executes the dedupe table is empty; every
\* entry of the table is the promise of a move task of the entry's player
\* that waits or executes, and its call has not settled.
C36_IdleMeansEmpty ==
    /\ QueueIdle => moveInFlight = <<>>
    /\ \A key \in DOMAIN moveInFlight :
         /\ moveInFlight[key].t = "run"
         /\ LET k == moveInFlight[key].k
            IN  /\ k \in DOMAIN tasks
                /\ Unsettled(k)
                /\ tasks[k].once /\ tasks[k].key = key
                /\ tasks[k].call.fn = "moveFor"
                /\ moveKey(AddrStr(tasks[k].call.player, "checksum")) = key
                /\ fnP[k] = Pending

\* The queue is idle after a move that failed and a move that succeeded, and
\* the table is empty.
C36_Witness ==
    /\ QueueIdle
    /\ moveInFlight = <<>>
    /\ \E k \in DOMAIN tasks : tasks[k].once /\ fnP[k].st = "rejected"
    /\ \E k \in DOMAIN tasks : tasks[k].once /\ fnP[k].st = "fulfilled"

\* This step settles the arena call of task k.
Settles(k) == tasks[k].phase = "running" /\ tasks'[k].phase = "settled"

\* C37: an entry leaves the dedupe table only in the step that settles the
\* move task whose promise it holds, and that step removes no other entry
\* and changes none; the entry of a move task is inserted, under a key that
\* has no entry, in the step that enqueues the task, so it is there when the
\* task starts and when its cleanup runs, and no move task of the same key
\* is enqueued between the two.
C37_CleanupOwnEntry ==
    [][/\ \A key \in DOMAIN moveInFlight :
            IF key \in DOMAIN moveInFlight'
            THEN moveInFlight'[key] = moveInFlight[key]
            ELSE /\ moveInFlight[key].t = "run"
                 /\ Settles(moveInFlight[key].k)
                 /\ tasks[moveInFlight[key].k].key = key
       /\ \A k \in DOMAIN tasks :
            tasks[k].once /\ Settles(k) =>
               /\ hasInFlight(moveInFlight, tasks[k].key)
               /\ moveInFlight[tasks[k].key] = RunRef(k)
               /\ moveInFlight' = mapDelete(moveInFlight, tasks[k].key)
               /\ \A j \in DOMAIN tasks :
                    j # k /\ tasks[j].once /\ tasks[j].key = tasks[k].key => ~Unsettled(j)
       /\ \A k \in DOMAIN tasks :
            tasks[k].once /\ tasks[k].phase = "queued" /\ tasks'[k].phase = "running" =>
               moveInFlight[tasks[k].key] = RunRef(k)
       /\ Len(tasks') = Len(tasks) + 1 /\ tasks'[Len(tasks')].once =>
            LET key == tasks'[Len(tasks')].key
            IN  /\ ~hasInFlight(moveInFlight, key)
                /\ moveInFlight' = mapSet(moveInFlight, key, RunRef(Len(tasks')))
                /\ tasks'[Len(tasks')].phase = "queued"]_vars

\* The first move of an actor has settled and removed its entry, and the
\* entry of the actor's next move, which waits or executes, is in the table
\* next to the other actor's.
C37_Witness ==
    /\ Len(tasks) = 3
    /\ \E i, j, k \in DOMAIN tasks :
         /\ i < j
         /\ tasks[i].once /\ tasks[j].once /\ tasks[k].once
         /\ tasks[i].key = tasks[j].key /\ tasks[k].key # tasks[i].key
         /\ tasks[i].phase = "settled"
         /\ Unsettled(j) /\ Unsettled(k)
         /\ moveInFlight[tasks[j].key] = RunRef(j)
         /\ moveInFlight[tasks[k].key] = RunRef(k)

\* The calls of requestMove whose request is with the route.
Fetching == {i \in DOMAIN mover.loops : mover.loops[i].pc = "fetch"}

\* C38: the page has at most one /api/move request in flight; a direction
\* that is pending is the latest one pressed; when the request in flight
\* completes the pending direction is the one sent next; and once the send
\* loop has stopped no direction is pending.
C38_MoveCoalescing ==
    /\ [](/\ Cardinality(Fetching) <= 1
          /\ mover.pendingDirRef # NoDir =>
                mover.pendingDirRef = mover.pressed[Len(mover.pressed)]
          /\ ~mover.moveInFlightRef => mover.pendingDirRef = NoDir)
    /\ [][\A i \in Fetching :
             mover'.loops[i].pc # "fetch" /\ mover.pendingDirRef # NoDir =>
                mover'.loops[i] = Loop("getNonce", mover.pendingDirRef)]_vars

\* C39: `tail` refers to the promise made by the latest enqueue, which is
\* pending or fulfilled with undefined and never rejected, and which is
\* fulfilled once the task's run has settled and the reactions are done,
\* whether the run succeeded or failed; the step that enqueues a task chains
\* it on the promise `tail` referred to and makes `tail` refer to the pending
\* settlement of the new task, and no other step changes `tail`.
C39_TailNeverRejects ==
    /\ [](/\ tail = TailRef(Len(tasks))
          /\ PState(tail).st # "rejected"
          /\ \A k \in DOMAIN tasks :
               /\ tailP[k] \in {Pending, Fulfilled(Undefined)}
               /\ tailP[k] # Pending => runP[k].st # "pending"
               /\ MicrotasksDrained /\ runP[k].st # "pending" =>
                     tailP[k] = Fulfilled(Undefined))
    /\ [][IF Len(tasks') # Len(tasks)
          THEN /\ Len(tasks') = Len(tasks) + 1
               /\ tasks'[Len(tasks')].src = tail
               /\ tail' = TailRef(Len(tasks'))
               /\ tail' # tail
               /\ tailP'[Len(tasks')] = Pending
               /\ runP'[Len(tasks')] = Pending
          ELSE tail' = tail]_vars

\* The queue's tail is fulfilled though the last task failed, after a task
\* that succeeded.
C39_Witness ==
    /\ Len(tasks) = 2
    /\ runP[1].st = "fulfilled"
    /\ runP[2].st = "rejected"
    /\ tail = TailRef(2)
    /\ PState(tail) = Fulfilled(Undefined)

====
